---- MODULE Spec2Model ----
(***************************************************************************)
(* Model of codigo/solvers.py: the five problem classes LP, IP, NLP, MILP  *)
(* and MINLP of the interactive optimisation system.  Each class parses    *)
(* its form input, validates it, assembles a Pyomo model, calls one        *)
(* backend solver and interprets the solver's status.                      *)
(*                                                                         *)
(* The six operator symbols of the forms are not ASCII; they are written   *)
(* here by their code points: "u2264" (less-or-equal), "u2265"             *)
(* (greater-or-equal), "u2260" (not-equal); "=", "<" and ">" are ASCII.    *)
(***************************************************************************)
EXTENDS Integers, Sequences, FiniteSets, TLC

VARIABLES
    clase,                \* problem class of the instance being served
    pc,                   \* position of the current request
    elementos,            \* self.elementos
    parametros,           \* self.parametros: name -> (element -> value)
    param_names,          \* the local param_names of interfaz
    restricciones_input,  \* rows collected by the form
    restricciones,        \* self.restricciones
    variables_enteras,    \* self.variables_enteras (NLP: unused)
    variables_continuas,  \* self.variables_continuas (NLP: self.variables)
    funcion_objetivo,     \* self.funcion_objetivo (an expression tree)
    param_objetivo,       \* self.param_objetivo
    salida,               \* what was written through st.* in this request
    llamadas,             \* backend calls of this request, in order
    modelo,               \* the Pyomo model as assembled so far
    resultado,            \* what solver.solve returned, once it has
    evaluado,             \* the last value eval() produced on its own
    excepcion,            \* the exception that escaped, or "ninguna"
    texto,                \* the text of a list field given to parse_lista
    tipo_objetivo,        \* self.tipo_objetivo: "None", "maximize", "minimize"
    orden_parametros      \* the keys of self.parametros in insertion order

vars == << clase, pc, elementos, parametros, param_names, restricciones_input,
           restricciones, variables_enteras, variables_continuas,
           funcion_objetivo, param_objetivo, salida, llamadas, modelo,
           resultado, evaluado, excepcion, texto, tipo_objetivo,
           orden_parametros >>

----------------------------------------------------------------------------
(* Bounds of the model. *)

MaxFilas == 2      \* constraint rows of one request

----------------------------------------------------------------------------
(* Small helpers. *)

Rango(s) == { s[k] : k \in DOMAIN s }

SeqHasta(S, n) == UNION { [1..k -> S] : k \in 0..n }

RECURSIVE SinDuplicados(_)
(* Order-preserving removal of repeated entries, as a Pyomo Set keeps the   *)
(* first occurrence of each member.                                         *)
SinDuplicados(s) ==
    IF s = << >> THEN << >>
    ELSE LET r == SinDuplicados(SubSeq(s, 1, Len(s) - 1))
             u == s[Len(s)]
         IN  IF u \in Rango(r) THEN r ELSE Append(r, u)

----------------------------------------------------------------------------
(* Operators: the dict literal each class carries. *)

Simbolos == {"u2264", "u2265", "=", "<", ">", "u2260"}
Etiquetas == {"<=", ">=", "==", "<", ">", "!="}

ClasesLineales == {"LP", "IP"}
ClasesExpresion == {"NLP", "MILP", "MINLP"}
Clases == ClasesLineales \cup ClasesExpresion

operadores_validos_malo(c) ==
    (* a copy-paste slip: "=" canonicalised like less-or-equal *)
    [s \in Simbolos |->
        CASE s = "u2264" -> "<="
          [] s = "u2265" -> ">="
          [] s = "="     -> "<="
          [] s = "<"     -> "<"
          [] s = ">"     -> ">"
          [] s = "u2260" -> "!="]

operadores_validos(c) ==
    CASE c = "LP" ->
           ("u2264" :> "<=" @@ "u2265" :> ">=" @@ "=" :> "==" @@
            "<" :> "<" @@ ">" :> ">" @@ "u2260" :> "!=")
      [] c = "IP" ->
           ("u2264" :> "<=" @@ "u2265" :> ">=" @@ "=" :> "==" @@
            "<" :> "<" @@ ">" :> ">" @@ "u2260" :> "!=")
      [] c = "NLP" ->
           ("u2264" :> "<=" @@ "u2265" :> ">=" @@ "=" :> "==" @@
            "<" :> "<" @@ ">" :> ">" @@ "u2260" :> "!=")
      [] c = "MILP" ->
           ("u2264" :> "<=" @@ "u2265" :> ">=" @@ "=" :> "==" @@
            "<" :> "<" @@ ">" :> ">" @@ "u2260" :> "!=")
      [] c = "MINLP" ->
           ("u2264" :> "<=" @@ "u2265" :> ">=" @@ "=" :> "==" @@
            "<" :> "<" @@ ">" :> ">" @@ "u2260" :> "!=")

----------------------------------------------------------------------------
(* Values of a constraint row and Python's float().                        *)
(* A value is [kind, num, txt]: an int or a float (num), a str (txt, a      *)
(* tuple of one-character strings) or None.  Floats are modelled by the     *)
(* integer they equal.                                                      *)

Caracteres == {"4", "8", "-", "x", " "}
Digitos == {"4", "8"}

VInt(n) == [kind |-> "int", num |-> n, txt |-> << >>]
VFloat(n) == [kind |-> "float", num |-> n, txt |-> << >>]
VStr(t) == [kind |-> "str", num |-> 0, txt |-> t]
VNone == [kind |-> "none", num |-> 0, txt |-> << >>]

(* str.strip() removes every leading and trailing whitespace character;    *)
(* "TAB" and "NL" stand for the tab and the newline character.              *)
Blancos == {" ", "TAB", "NL"}

RECURSIVE strip(_)
strip(t) ==
    IF t = << >> THEN t
    ELSE IF Head(t) \in Blancos THEN strip(Tail(t))
    ELSE IF t[Len(t)] \in Blancos THEN strip(SubSeq(t, 1, Len(t) - 1))
    ELSE t

ValorDigito(d) == IF d = "4" THEN 4 ELSE 8

RECURSIVE ValorDigitos(_)
ValorDigitos(t) ==
    IF t = << >> THEN 0
    ELSE 10 * ValorDigitos(SubSeq(t, 1, Len(t) - 1)) + ValorDigito(t[Len(t)])

(* float(valor): [ok, num] on success, else the exception class raised. *)
float(v) ==
    CASE v.kind \in {"int", "float"} ->
           [ok |-> TRUE, exc |-> "ninguna", num |-> v.num]
      [] v.kind = "str" ->
           LET t == strip(v.txt)
               neg == t # << >> /\ Head(t) = "-"
               d == IF neg THEN Tail(t) ELSE t
           IN  IF d # << >> /\ \A k \in DOMAIN d : d[k] \in Digitos
               THEN [ok |-> TRUE, exc |-> "ninguna",
                     num |-> IF neg THEN 0 - ValorDigitos(d) ELSE ValorDigitos(d)]
               ELSE [ok |-> FALSE, exc |-> "ValueError", num |-> 0]
      [] v.kind = "none" ->
           [ok |-> FALSE, exc |-> "TypeError", num |-> 0]

----------------------------------------------------------------------------
(* st.error and the other Streamlit outputs, as records. *)

MsgFila(k, causa, dato) ==
    [nivel |-> "error", fila |-> k, causa |-> causa, dato |-> dato]

Msg(nivel, causa) ==
    [nivel |-> nivel, fila |-> 0, causa |-> causa, dato |-> VNone]

----------------------------------------------------------------------------
(* LP.parse_restricciones / IP.parse_restricciones.                        *)
(* rows: the input list; nombres: param_names; k: the row being looked at. *)
(* The result carries the rows appended so far, the errors reported so far  *)
(* and the exception that left the loop, if any.                            *)

RECURSIVE parse_bucle_sin_continuar(_, _, _, _, _, _)
parse_bucle_sin_continuar(c, rows, nombres, k, acc, errs) ==
    (* a slip: an invalid row ends the loop instead of being skipped *)
    IF k > Len(rows) THEN [exc |-> "ninguna", restricciones |-> acc, st |-> errs]
    ELSE LET restr == rows[k] IN
         IF restr.parametro \notin Rango(nombres)
         THEN [exc |-> "ninguna", restricciones |-> acc,
               st |-> Append(errs, MsgFila(k, "parametro no reconocido",
                                           VStr(<< restr.parametro >>)))]
         ELSE IF restr.operador \notin DOMAIN operadores_validos(c)
         THEN [exc |-> "ninguna", restricciones |-> acc,
               st |-> Append(errs, MsgFila(k, "operador no valido",
                                           VStr(<< restr.operador >>)))]
         ELSE LET f == float(restr.valor) IN
              IF f.ok
              THEN parse_bucle_sin_continuar(c, rows, nombres, k + 1,
                      Append(acc, [parametro |-> restr.parametro,
                                   operador |-> operadores_validos(c)[restr.operador],
                                   valor |-> VFloat(f.num)]), errs)
              ELSE IF f.exc = "ValueError"
              THEN [exc |-> "ninguna", restricciones |-> acc,
                    st |-> Append(errs, MsgFila(k, "valor no numerico", restr.valor))]
              ELSE [exc |-> f.exc, restricciones |-> acc, st |-> errs]

RECURSIVE parse_bucle(_, _, _, _, _, _)
parse_bucle(c, rows, nombres, k, acc, errs) ==
    IF k > Len(rows) THEN [exc |-> "ninguna", restricciones |-> acc, st |-> errs]
    ELSE LET restr == rows[k] IN
         IF restr.parametro \notin Rango(nombres)
         THEN parse_bucle(c, rows, nombres, k + 1, acc,
                 Append(errs, MsgFila(k, "parametro no reconocido",
                                      VStr(<< restr.parametro >>))))
         ELSE IF restr.operador \notin DOMAIN operadores_validos(c)
         THEN parse_bucle(c, rows, nombres, k + 1, acc,
                 Append(errs, MsgFila(k, "operador no valido",
                                      VStr(<< restr.operador >>))))
         ELSE LET f == float(restr.valor) IN
              IF f.ok
              THEN parse_bucle(c, rows, nombres, k + 1,
                      Append(acc, [parametro |-> restr.parametro,
                                   operador |-> operadores_validos(c)[restr.operador],
                                   valor |-> VFloat(f.num)]), errs)
              ELSE IF f.exc = "ValueError"
              THEN parse_bucle(c, rows, nombres, k + 1, acc,
                      Append(errs, MsgFila(k, "valor no numerico", restr.valor)))
              ELSE \* not a ValueError: the except clause does not catch it
                   [exc |-> f.exc, restricciones |-> acc, st |-> errs]

parse_restricciones(c, restricciones_in, nombres) ==
    parse_bucle(c, restricciones_in, nombres, 1, << >>, << >>)

----------------------------------------------------------------------------
(* Expressions.  The text of an objective or of a constraint's left side    *)
(* is modelled by its syntax tree:                                          *)
(*   <<"num", n>>  <<"name", id>>  <<"neg", e>>  <<"bin", op, l, r>>         *)
(*   <<"call", f, <<args>>>>  and  <<"vacio">> for the empty text.           *)

Num(n) == << "num", n >>
Name(id) == << "name", id >>
Neg(e) == << "neg", e >>
Bin(op, l, r) == << "bin", op, l, r >>
Call(f, args) == << "call", f, args >>
Vacio == << "vacio" >>

OperadoresBinarios == {"+", "-", "*", "/", "**"}

(* The names of the builtins module (CPython 3.11).  eval(text, {},       *)
(* locals) is given an empty globals dict, into which Python inserts       *)
(* __builtins__, so each of these names resolves.                          *)
Builtins ==
    {
     "ArithmeticError", "AssertionError", "AttributeError",
     "BaseException", "BaseExceptionGroup", "BlockingIOError",
     "BrokenPipeError", "BufferError", "BytesWarning", "ChildProcessError",
     "ConnectionAbortedError", "ConnectionError", "ConnectionRefusedError",
     "ConnectionResetError", "DeprecationWarning", "EOFError", "Ellipsis",
     "EncodingWarning", "EnvironmentError", "Exception", "ExceptionGroup",
     "False", "FileExistsError", "FileNotFoundError", "FloatingPointError",
     "FutureWarning", "GeneratorExit", "IOError", "ImportError",
     "ImportWarning", "IndentationError", "IndexError", "InterruptedError",
     "IsADirectoryError", "KeyError", "KeyboardInterrupt", "LookupError",
     "MemoryError", "ModuleNotFoundError", "NameError", "None",
     "NotADirectoryError", "NotImplemented", "NotImplementedError",
     "OSError", "OverflowError", "PendingDeprecationWarning",
     "PermissionError", "ProcessLookupError", "RecursionError",
     "ReferenceError", "ResourceWarning", "RuntimeError", "RuntimeWarning",
     "StopAsyncIteration", "StopIteration", "SyntaxError", "SyntaxWarning",
     "SystemError", "SystemExit", "TabError", "TimeoutError", "True",
     "TypeError", "UnboundLocalError", "UnicodeDecodeError",
     "UnicodeEncodeError", "UnicodeError", "UnicodeTranslateError",
     "UnicodeWarning", "UserWarning", "ValueError", "Warning",
     "ZeroDivisionError", "__build_class__", "__debug__", "__doc__",
     "__import__", "__loader__", "__name__", "__package__", "__spec__",
     "abs", "aiter", "all", "anext", "any", "ascii", "bin", "bool",
     "breakpoint", "bytearray", "bytes", "callable", "chr", "classmethod",
     "compile", "complex", "copyright", "credits", "delattr", "dict",
     "dir", "divmod", "enumerate", "eval", "exec", "exit", "filter",
     "float", "format", "frozenset", "getattr", "globals", "hasattr",
     "hash", "help", "hex", "id", "input", "int", "isinstance",
     "issubclass", "iter", "len", "license", "list", "locals", "map",
     "max", "memoryview", "min", "next", "object", "oct", "open", "ord",
     "pow", "print", "property", "quit", "range", "repr", "reversed",
     "round", "set", "setattr", "slice", "sorted", "staticmethod", "str",
     "sum", "super", "tuple", "type", "vars", "zip" }

(* The builtin functions whose calls the model follows. *)
BuiltinsSeguidos ==
    {"abs", "float", "int", "len", "max", "min", "pow", "round", "sum"}

(* The names of the builtins module that are not callable objects. *)
BuiltinsNoLlamables ==
    {"Ellipsis", "NotImplemented", "__debug__", "__doc__", "__name__",
     "__package__", "__spec__"}

RECURSIVE NombresDe(_)
NombresDe(e) ==
    CASE e[1] = "num" -> {}
      [] e[1] = "vacio" -> {}
      [] e[1] = "name" -> {e[2]}
      [] e[1] = "neg" -> NombresDe(e[2])
      [] e[1] = "bin" -> NombresDe(e[3]) \cup NombresDe(e[4])
      [] e[1] = "call" -> {e[2]} \cup UNION { NombresDe(e[3][k]) : k \in DOMAIN e[3] }

RECURSIVE TieneLlamada(_)
TieneLlamada(e) ==
    CASE e[1] = "num" -> FALSE
      [] e[1] = "vacio" -> FALSE
      [] e[1] = "name" -> FALSE
      [] e[1] = "neg" -> TieneLlamada(e[2])
      [] e[1] = "bin" -> TieneLlamada(e[3]) \/ TieneLlamada(e[4])
      [] e[1] = "call" -> TRUE

(* Python objects an evaluation can produce: a number (the rational n/d in  *)
(* lowest terms, d > 0; f tells a float from an int), a Pyomo expression    *)
(* over the variable handles (h: the object is a variable handle itself),   *)
(* a builtin function object, None, or an exception.  A float n/d is the    *)
(* double nearest to n/d: it is that rational itself when d is a power of   *)
(* two.  "otro" stands for every outcome the model does not follow: an      *)
(* object of another type (bool, str, tuple, complex, ...), a number        *)
(* beyond MaxNumero, the call of a builtin outside BuiltinsSeguidos or of   *)
(* a variable handle, and arithmetic whose result depends on the rounding   *)
(* of an operand.  No action takes a step on an expression whose            *)
(* evaluation is "otro".                                                    *)

MaxNumero == 10000

RECURSIVE mcd(_, _)
mcd(a, b) == IF b = 0 THEN a ELSE mcd(b, a % b)

Abs(n) == IF n < 0 THEN 0 - n ELSE n

ONum(n, d, f) ==
    LET g == mcd(Abs(n), Abs(d))
        s == IF d < 0 THEN 0 - 1 ELSE 1
    IN  [t |-> "num", n |-> (s * n) \div g, d |-> (s * d) \div g, f |-> f,
         h |-> FALSE, exc |-> "ninguna"]
OExpr == [t |-> "expr", n |-> 0, d |-> 1, f |-> FALSE, h |-> FALSE, exc |-> "ninguna"]
OVar == [t |-> "expr", n |-> 0, d |-> 1, f |-> FALSE, h |-> TRUE, exc |-> "ninguna"]
OFunc == [t |-> "func", n |-> 0, d |-> 1, f |-> FALSE, h |-> FALSE, exc |-> "ninguna"]
ONone == [t |-> "none", n |-> 0, d |-> 1, f |-> FALSE, h |-> FALSE, exc |-> "ninguna"]
OOtro == [t |-> "otro", n |-> 0, d |-> 1, f |-> FALSE, h |-> FALSE, exc |-> "ninguna"]
OExc(x) == [t |-> "exc", n |-> 0, d |-> 1, f |-> FALSE, h |-> FALSE, exc |-> x]

(* the number n/d when the model follows it *)
Numero(n, d, f) ==
    LET v == ONum(n, d, f)
    IN  IF Abs(v.n) > MaxNumero \/ v.d > MaxNumero THEN OOtro ELSE v

PotenciasDeDos ==
    {1, 2, 4, 8, 16, 32, 64, 128, 256, 512, 1024, 2048, 4096, 8192}

(* the number holds the rational n/d itself: an int, or a float that is    *)
(* not rounded                                                              *)
Exacto(a) == ~a.f \/ a.d \in PotenciasDeDos

(* b ** k for k >= 0, not followed further once it is beyond MaxNumero *)
RECURSIVE potencia_desde(_, _, _)
potencia_desde(b, k, acc) ==
    IF k = 0 \/ Abs(acc) > MaxNumero THEN acc
    ELSE potencia_desde(b, k - 1, acc * b)

potencia(b, k) ==
    IF k = 0 THEN 1
    ELSE IF b = 0 THEN 0
    ELSE IF b = 1 THEN 1
    ELSE IF b = 0 - 1 THEN (IF k % 2 = 0 THEN 1 ELSE 0 - 1)
    ELSE potencia_desde(b, k, 1)

(* a ** b on two numbers: int ** non-negative int is an int; every other    *)
(* case is float_pow on the two values: x ** 0 is 1.0, 0 ** negative        *)
(* raises, 1 ** y is 1.0, a negative base with a fractional exponent gives  *)
(* a complex number, and the rest is the C library's pow, which is exact    *)
(* when the result is a float.                                              *)
OpPotencia(a, b) ==
    IF ~a.f /\ ~b.f /\ b.n >= 0
    THEN Numero(potencia(a.n, b.n), 1, FALSE)
    ELSE IF b.n = 0 THEN ONum(1, 1, TRUE)
    ELSE IF a.n = 0
    THEN IF b.n < 0 THEN OExc("ZeroDivisionError") ELSE ONum(0, 1, TRUE)
    ELSE IF a.n = a.d THEN ONum(1, 1, TRUE)
    ELSE IF b.d # 1 \/ ~Exacto(a) THEN OOtro
    ELSE LET k == Abs(b.n)
             r == IF b.n > 0
                  THEN Numero(potencia(a.n, k), potencia(a.d, k), TRUE)
                  ELSE Numero(potencia(a.d, k), potencia(a.n, k), TRUE)
         IN  IF r.t = "num" /\ Exacto(r) THEN r ELSE OOtro

(* Python arithmetic on two numbers: / gives a float, the other operators   *)
(* an int on ints.  On operands that hold their rationals the result is     *)
(* the correctly rounded rational result.                                   *)
OpNumeros(op, a, b) ==
    IF op = "**" THEN OpPotencia(a, b)
    ELSE IF op = "/" /\ b.n = 0 THEN OExc("ZeroDivisionError")
    ELSE IF ~(Exacto(a) /\ Exacto(b)) THEN OOtro
    ELSE CASE op = "+" -> Numero(a.n * b.d + b.n * a.d, a.d * b.d, a.f \/ b.f)
           [] op = "-" -> Numero(a.n * b.d - b.n * a.d, a.d * b.d, a.f \/ b.f)
           [] op = "*" -> Numero(a.n * b.n, a.d * b.d, a.f \/ b.f)
           [] op = "/" -> Numero(a.n * b.d, a.d * b.n, TRUE)

(* The overloaded arithmetic of Pyomo's handles with a number on one side:  *)
(* a zero operand is folded to a number, a neutral operand returns the      *)
(* other operand itself.  The left operand is evaluated first.              *)
OpBinario(op, a, b) ==
    CASE a.t \in {"exc", "otro"} -> a
      [] a.t \notin {"exc", "otro"} /\ b.t \in {"exc", "otro"} -> b
      [] a.t \in {"func", "none"} /\ b.t \in {"func", "none", "num", "expr"} ->
           OExc("TypeError")
      [] a.t \in {"num", "expr"} /\ b.t \in {"func", "none"} -> OExc("TypeError")
      [] a.t = "num" /\ b.t = "num" -> OpNumeros(op, a, b)
      [] a.t = "expr" /\ b.t = "num" ->
           IF op = "/" /\ b.n = 0 THEN OExc("ZeroDivisionError")
           ELSE IF op = "*" /\ b.n = 0 THEN ONum(0, 1, FALSE)
           ELSE IF op = "**" /\ b.n = 0 THEN ONum(1, 1, FALSE)
           ELSE IF op \in {"*", "/", "**"} /\ b.n = 1 /\ b.d = 1 THEN a
           ELSE IF op \in {"+", "-"} /\ b.n = 0 THEN a
           ELSE OExpr
      [] a.t = "num" /\ b.t = "expr" ->
           IF op \in {"*", "/"} /\ a.n = 0 THEN ONum(0, 1, FALSE)
           ELSE IF op = "*" /\ a.n = 1 /\ a.d = 1 THEN b
           ELSE IF op = "+" /\ a.n = 0 THEN b
           ELSE OExpr
      [] a.t = "expr" /\ b.t = "expr" -> OExpr

EsEntero(a) == a.t = "num" /\ ~a.f

(* In MILP a handle is a scalar component of the model, which has a length  *)
(* (1) and iterates over its one index (None); in NLP and MINLP it is a     *)
(* member of model.vars, which has neither.                                 *)
EsComponente(a) == a.t = "expr" /\ a.h /\ clase = "MILP"

(* x % c with the sign of c, as Python's % on ints *)
ModPy(x, c) == IF c > 0 THEN x % c ELSE 0 - ((0 - x) % (0 - c))

(* pow(a, b, c): ints only; a negative exponent takes the inverse of a      *)
(* modulo c.                                                                *)
pow3(a, b, c) ==
    IF ~(EsEntero(a) /\ EsEntero(b) /\ EsEntero(c)) THEN OExc("TypeError")
    ELSE IF c.n = 0 THEN OExc("ValueError")
    ELSE IF b.n >= 0
    THEN LET p == potencia(a.n, b.n)
         IN  IF Abs(p) > MaxNumero THEN OOtro
             ELSE ONum(ModPy(p, c.n), 1, FALSE)
    ELSE LET m == Abs(c.n)
             inv == { i \in 0..(m - 1) : (a.n * i) % m = 1 % m }
         IN  IF inv = {} THEN OExc("ValueError")
             ELSE LET p == potencia(CHOOSE i \in inv : TRUE, 0 - b.n)
                  IN  IF Abs(p) > MaxNumero THEN OOtro
                      ELSE ONum(ModPy(p, c.n), 1, FALSE)

(* n/d rounded to the nearest whole number, halves to the even one *)
RedondeoPar(n, d) ==
    LET q == n \div d
        r == n - q * d
    IN  IF 2 * r < d THEN q
        ELSE IF 2 * r > d THEN q + 1
        ELSE IF q % 2 = 0 THEN q ELSE q + 1

(* int(x): towards zero *)
Truncar(n, d) == IF n >= 0 THEN n \div d ELSE 0 - ((0 - n) \div d)

(* round(x), round(x, None), round(x, k).  A float is rounded on the value  *)
(* of the double: on a rounded float that lies halfway in the rationals     *)
(* the direction is the rounding error's.                                   *)
round(args) ==
    IF Len(args) \notin {1, 2} THEN OExc("TypeError")
    ELSE IF args[1].t # "num" THEN OExc("TypeError")
    ELSE IF Len(args) = 1 \/ args[2].t = "none"
    THEN Numero(RedondeoPar(args[1].n, args[1].d), 1, FALSE)
    ELSE IF ~EsEntero(args[2]) THEN OExc("TypeError")
    ELSE LET a == args[1]
             k == args[2].n
             s == potencia(10, Abs(k))
         IN  IF ~a.f /\ k >= 0 THEN a
             ELSE IF s > MaxNumero THEN OOtro
             ELSE IF k >= 0
             THEN IF 2 * ((a.n * s) % a.d) = a.d /\ ~Exacto(a) THEN OOtro
                  ELSE Numero(RedondeoPar(a.n * s, a.d), s, TRUE)
             ELSE Numero(RedondeoPar(a.n, a.d * s) * s, 1, a.f)

(* "nuevo < actual" (min) or "nuevo > actual" (max): the exception the      *)
(* comparison or its truth value raises, or "ninguna".                      *)
comparar(nuevo, actual) ==
    IF nuevo.t = "num" /\ actual.t = "num" THEN "ninguna"
    ELSE IF nuevo.t \in {"func", "none"} \/ actual.t \in {"func", "none"}
    THEN "TypeError"
    ELSE "PyomoException"

Menor(a, b) == a.n * b.d < b.n * a.d

(* min(...) / max(...) with two or more arguments, from argument k on     *)
(* with the candidate so far.                                               *)
RECURSIVE minmax(_, _, _, _)
minmax(f, args, k, actual) ==
    IF k > Len(args) THEN actual
    ELSE IF comparar(args[k], actual) # "ninguna"
    THEN OExc(comparar(args[k], actual))
    ELSE IF (f = "min" /\ Menor(args[k], actual))
            \/ (f = "max" /\ Menor(actual, args[k]))
    THEN minmax(f, args, k + 1, args[k])
    ELSE minmax(f, args, k + 1, actual)

(* The call f(args) of a builtin on evaluated arguments.  The arguments     *)
(* are evaluated in order before the call: the first that raised, or that   *)
(* is not followed, is the outcome.                                         *)
OpLlamada(f, args) ==
    IF \E k \in DOMAIN args : args[k].t \in {"exc", "otro"}
    THEN args[CHOOSE k \in DOMAIN args :
                 /\ args[k].t \in {"exc", "otro"}
                 /\ \A j \in 1..(k - 1) : args[j].t \notin {"exc", "otro"}]
    ELSE CASE f = "abs" ->
                IF Len(args) # 1 \/ args[1].t \in {"func", "none"}
                THEN OExc("TypeError")
                ELSE IF args[1].t = "num"
                THEN ONum(Abs(args[1].n), args[1].d, args[1].f)
                ELSE OExpr
           [] f = "float" ->
                IF Len(args) = 0 THEN ONum(0, 1, TRUE)
                ELSE IF Len(args) = 1 /\ args[1].t = "num"
                THEN ONum(args[1].n, args[1].d, TRUE)
                ELSE OExc("TypeError")
           [] f = "int" ->
                IF Len(args) = 0 THEN ONum(0, 1, FALSE)
                ELSE IF Len(args) = 1 /\ args[1].t = "num"
                THEN ONum(Truncar(args[1].n, args[1].d), 1, FALSE)
                ELSE IF Len(args) = 2 /\ EsEntero(args[2])
                        /\ args[2].n # 0 /\ args[2].n \notin 2..36
                THEN \* the base is checked before the value
                     OExc("ValueError")
                ELSE OExc("TypeError")
           [] f = "len" ->
                IF Len(args) = 1 /\ EsComponente(args[1])
                THEN ONum(1, 1, FALSE)
                ELSE OExc("TypeError")
           [] f \in {"min", "max"} ->
                IF Len(args) = 0 THEN OExc("TypeError")
                ELSE IF Len(args) = 1
                THEN IF EsComponente(args[1]) THEN ONone ELSE OExc("TypeError")
                ELSE minmax(f, args, 2, args[1])
           [] f = "pow" ->
                IF Len(args) = 2 \/ (Len(args) = 3 /\ args[3].t = "none")
                THEN OpBinario("**", args[1], args[2])
                ELSE IF Len(args) = 3 THEN pow3(args[1], args[2], args[3])
                ELSE OExc("TypeError")
           [] f = "round" -> round(args)
           [] f = "sum" ->
                \* no argument of these expressions is an iterable of numbers
                OExc("TypeError")
           [] f \notin BuiltinsSeguidos -> OOtro

(* The object a name denotes.  None, True, False and __debug__ are          *)
(* constants of the language, compiled without a lookup; another name is    *)
(* looked up in locals, then in the globals, then in the builtins.  The     *)
(* globals are the empty dict the call passes, into which eval puts the     *)
(* key __builtins__ before it runs the text.                                *)
buscar_nombre(id, locals) ==
    IF id = "None" THEN ONone
    ELSE IF id \in {"True", "False", "__debug__"} THEN OOtro
    ELSE IF id \in locals THEN OVar
    ELSE IF id = "__builtins__" THEN OOtro
    ELSE IF id \in BuiltinsNoLlamables THEN OOtro
    ELSE IF id \in Builtins THEN OFunc
    ELSE OExc("NameError")

(* -a *)
OpNegativo(a) ==
    IF a.t \in {"exc", "otro"} THEN a
    ELSE IF a.t \in {"func", "none"} THEN OExc("TypeError")
    ELSE IF a.t = "num" THEN ONum(0 - a.n, a.d, a.f)
    ELSE OExpr

(* f(args) on the object f that the name denotes: the function name is     *)
(* looked up first, then the arguments are evaluated, then the call is      *)
(* made.  The call of a variable handle or of a builtin outside             *)
(* BuiltinsSeguidos is not followed.                                        *)
Llamar(id, f, args) ==
    IF f.t \in {"exc", "otro"} THEN f
    ELSE IF \E k \in DOMAIN args : args[k].t \in {"exc", "otro"}
    THEN OpLlamada(id, args)
    ELSE IF f.t = "none" THEN OExc("TypeError")
    ELSE IF f.t = "func" /\ id \in BuiltinsSeguidos THEN OpLlamada(id, args)
    ELSE OOtro

(* eval(text, {}, locals).  Each operand is evaluated once, from left to    *)
(* right, and the operator is applied to the values.                        *)
RECURSIVE eval(_, _)
RECURSIVE eval_args(_, _, _)
eval_args(es, k, locals) ==
    IF k > Len(es) THEN << >>
    ELSE << eval(es[k], locals) >> \o eval_args(es, k + 1, locals)

eval(e, locals) ==
    CASE e[1] = "vacio" -> OExc("SyntaxError")
      [] e[1] = "num" -> Numero(e[2], 1, FALSE)
      [] e[1] = "name" -> buscar_nombre(e[2], locals)
      [] e[1] = "neg" ->
           CHOOSE r \in { OpNegativo(a) : a \in {eval(e[2], locals)} } : TRUE
      [] e[1] = "bin" ->
           CHOOSE r \in { OpBinario(e[2], a, b) :
                             a \in {eval(e[3], locals)},
                             b \in {eval(e[4], locals)} } : TRUE
      [] e[1] = "call" ->
           CHOOSE r \in { Llamar(e[2], buscar_nombre(e[2], locals), args) :
                             args \in {eval_args(e[3], 1, locals)} } : TRUE

(* the model follows the evaluation of e *)
Seguida(e, locals) == eval(e, locals).t # "otro"

(* The variable handles of the Pyomo expression eval(text, {}, locals)      *)
(* returns, one entry for each occurrence, from left to right.  A subterm   *)
(* that evaluates to a plain number (2 * 3, 0 * x) leaves no handle in the  *)
(* expression.                                                              *)
RECURSIVE nombres_en(_, _)
RECURSIVE nombres_en_args(_, _, _)
nombres_en_args(es, k, locals) ==
    IF k > Len(es) THEN << >>
    ELSE nombres_en(es[k], locals) \o nombres_en_args(es, k + 1, locals)

nombres_en(e, locals) ==
    CASE e[1] \in {"vacio", "num"} -> << >>
      [] e[1] = "name" ->
           IF buscar_nombre(e[2], locals).t = "expr" THEN << e[2] >> ELSE << >>
      [] e[1] = "neg" -> nombres_en(e[2], locals)
      [] e[1] = "bin" ->
           IF eval(e, locals).t # "expr" THEN << >>
           ELSE nombres_en(e[3], locals) \o nombres_en(e[4], locals)
      [] e[1] = "call" ->
           IF eval(e, locals).t # "expr" THEN << >>
           ELSE nombres_en_args(e[3], 1, locals)

(* the variables that occur in the expression *)
VariablesDe(e, locals) ==
    LET s == nombres_en(e, locals) IN { s[k] : k \in DOMAIN s }

(* The names written in the text, one entry for each occurrence (the name  *)
(* of a called function is not an operand).                                 *)
RECURSIVE nombres_escritos(_)
RECURSIVE nombres_escritos_args(_, _)
nombres_escritos_args(es, k) ==
    IF k > Len(es) THEN << >>
    ELSE nombres_escritos(es[k]) \o nombres_escritos_args(es, k + 1)

nombres_escritos(e) ==
    CASE e[1] \in {"vacio", "num"} -> << >>
      [] e[1] = "name" -> << e[2] >>
      [] e[1] = "neg" -> nombres_escritos(e[2])
      [] e[1] = "bin" -> nombres_escritos(e[3]) \o nombres_escritos(e[4])
      [] e[1] = "call" -> nombres_escritos_args(e[3], 1)

(* no variable is written twice in the text, so none can cancel *)
SinRepetidas(e, locals) ==
    \A j, k \in DOMAIN nombres_escritos(e) :
        (nombres_escritos(e)[j] \in locals
            /\ nombres_escritos(e)[j] = nombres_escritos(e)[k]) => j = k

----------------------------------------------------------------------------
(* The state after construction (__init__ of each class). *)

SinParametros == [p \in {} |-> 0]
SinComponentes == [v \in {} |-> "none"]
(* dominio: variable -> domain; objetivo: whether model.objetivo was set;   *)
(* nrestr: rows added to model.restricciones; componentes: the names        *)
(* registered on the model and the kind of component each denotes;          *)
(* busquedas: the kind each getattr(model, name) of the build returned;     *)
(* usadas: the variables that occur in the objective or in a row added to   *)
(* the model, which are the variables the solver is handed.                 *)
ModeloVacio == [dominio |-> [v \in {} |-> "none"], objetivo |-> FALSE, nrestr |-> 0,
                componentes |-> SinComponentes, busquedas |-> << >>,
                usadas |-> {}]

(* A number a caller or the form supplies as a parameter value: n/d. *)
Q(n, d) == [n |-> n, d |-> d]
SinResultado == [status |-> "none", termination |-> "none"]
SinEvaluar == [t |-> "nada", n |-> 0, d |-> 1, f |-> FALSE, h |-> FALSE,
               exc |-> "ninguna"]

Construido ==
    /\ orden_parametros = << >>
    /\ tipo_objetivo = "None"
    /\ elementos = << >>
    /\ parametros = SinParametros
    /\ param_names = << >>
    /\ restricciones_input = << >>
    /\ restricciones = << >>
    /\ variables_enteras = << >>
    /\ variables_continuas = << >>
    /\ funcion_objetivo = Vacio
    /\ param_objetivo = ""
    /\ salida = << >>
    /\ llamadas = << >>
    /\ modelo = ModeloVacio
    /\ resultado = SinResultado
    /\ evaluado = SinEvaluar
    /\ excepcion = "ninguna"

----------------------------------------------------------------------------
(* parse_restricciones on its own: the rows and the declared names are      *)
(* drawn from bounded sets and the function is applied to them.             *)

ParametrosFila == {"L", "Z"}
OperadoresFila == Simbolos \cup {"<="}
ValoresFila == {VInt(48), VStr(<< "-", "4" >>), VStr(<< "x" >>), VNone}
FilasParse == [parametro : ParametrosFila, operador : OperadoresFila,
               valor : ValoresFila]
NombresParse == {<< "P", "L" >>}

InitParse ==
    /\ orden_parametros = << >>
    /\ tipo_objetivo = "None"
    /\ texto = << >>
    /\ clase \in ClasesLineales
    /\ pc = "form"
    /\ elementos = << >>
    /\ parametros = SinParametros
    /\ param_names \in NombresParse
    /\ restricciones_input \in SeqHasta(FilasParse, MaxFilas)
    /\ restricciones = << >>
    /\ variables_enteras = << >>
    /\ variables_continuas = << >>
    /\ funcion_objetivo = Vacio
    /\ param_objetivo = ""
    /\ salida = << >>
    /\ llamadas = << >>
    /\ modelo = ModeloVacio
    /\ resultado = SinResultado
    /\ evaluado = SinEvaluar
    /\ excepcion = "ninguna"

(* self.restricciones = self.parse_restricciones(restricciones_input,       *)
(* param_names): the assignment happens only if the call returns.           *)
parsear ==
    /\ UNCHANGED orden_parametros
    /\ UNCHANGED tipo_objetivo
    /\ UNCHANGED texto
    /\ pc = "form"
    /\ LET r == parse_restricciones(clase, restricciones_input, param_names)
       IN  /\ restricciones' = IF r.exc = "ninguna" THEN r.restricciones
                               ELSE restricciones
           /\ salida' = salida \o r.st
           /\ excepcion' = r.exc
    /\ pc' = "parsed"
    /\ UNCHANGED << clase, elementos, parametros, param_names,
                    restricciones_input, variables_enteras,
                    variables_continuas, funcion_objetivo, param_objetivo,
                    llamadas, modelo, resultado, evaluado >>

NextParse == parsear

SpecParse == InitParse /\ [][NextParse]_vars

----------------------------------------------------------------------------
(* What the claims about parse_restricciones say, stated on the rows.       *)

EtiquetaDe(s) ==
    CASE s = "u2264" -> "<="
      [] s = "u2265" -> ">="
      [] s = "=" -> "=="
      [] s = "<" -> "<"
      [] s = ">" -> ">"
      [] s = "u2260" -> "!="

ParamOk(r) == r.parametro \in Rango(param_names)
OpOk(r) == r.operador \in Simbolos
ValorOk(r) == float(r.valor).ok

(* The first row that passes the two name tests and whose value makes       *)
(* float() raise something other than ValueError; 0 if there is none.       *)
FilaQueAborta ==
    LET A == { k \in DOMAIN restricciones_input :
                 /\ ParamOk(restricciones_input[k])
                 /\ OpOk(restricciones_input[k])
                 /\ float(restricciones_input[k].valor).exc = "TypeError" }
    IN  IF A = {} THEN 0 ELSE CHOOSE k \in A : \A j \in A : k <= j

(* The rows the loop gets through. *)
Recorridas ==
    IF FilaQueAborta = 0 THEN DOMAIN restricciones_input
    ELSE 1..(FilaQueAborta - 1)

(* The j-th smallest member of a set of positions. *)
Enesima(K, j) == CHOOSE k \in K : Cardinality({ i \in K : i <= k }) = j

CausaDe(r) ==
    IF ~ParamOk(r) THEN "parametro no reconocido"
    ELSE IF ~OpOk(r) THEN "operador no valido"
    ELSE "valor no numerico"

ErroresEsperados ==
    LET K == { k \in Recorridas :
                 LET r == restricciones_input[k]
                 IN  ~(ParamOk(r) /\ OpOk(r) /\ ValorOk(r)) }
    IN  /\ Len(salida) = Cardinality(K)
        /\ \A j \in 1..Len(salida) :
              LET k == Enesima(K, j) IN
              /\ salida[j].nivel = "error"
              /\ salida[j].fila = k
              /\ salida[j].causa = CausaDe(restricciones_input[k])

\* C2 as written: the rows returned are exactly those with a declared
\* parameter and one of the six symbols, in order, with the canonical tag;
\* rows with an unknown parameter or operator are reported by position.
\* (Stated for the calls that return.)
C2_Original ==
    (pc = "parsed" /\ excepcion = "ninguna") =>
        LET K == { k \in DOMAIN restricciones_input :
                     ParamOk(restricciones_input[k]) /\ OpOk(restricciones_input[k]) }
        IN  /\ Len(restricciones) = Cardinality(K)
            /\ \A j \in 1..Len(restricciones) :
                  LET r == restricciones_input[Enesima(K, j)] IN
                  /\ restricciones[j].parametro = r.parametro
                  /\ restricciones[j].operador = EtiquetaDe(r.operador)

\* C2 (amended): parse_restricciones goes through the rows in order; a row
\* with an undeclared parameter, an operator outside the six symbols, or a
\* value float() rejects with ValueError is skipped and reported with its
\* 1-based position, and the rows after it are still processed; if a row
\* passing the two name tests has a value on which float() raises TypeError
\* the call raises there and returns nothing; otherwise it returns exactly
\* the rows passing all three tests, in order, with the canonical tag and
\* the value as a float.
C2_ParseReturnsValidRows ==
    pc = "parsed" =>
        /\ ErroresEsperados
        /\ IF FilaQueAborta # 0
           THEN excepcion = "TypeError" /\ restricciones = << >>
           ELSE /\ excepcion = "ninguna"
                /\ LET K == { k \in DOMAIN restricciones_input :
                                LET r == restricciones_input[k]
                                IN  ParamOk(r) /\ OpOk(r) /\ ValorOk(r) }
                   IN  /\ Len(restricciones) = Cardinality(K)
                       /\ \A j \in 1..Len(restricciones) :
                             LET r == restricciones_input[Enesima(K, j)] IN
                             restricciones[j] =
                                 [parametro |-> r.parametro,
                                  operador |-> EtiquetaDe(r.operador),
                                  valor |-> VFloat(float(r.valor).num)]

(* A parse in which a skipped row is followed by a row that is kept. *)
C2_Witness ==
    /\ pc = "parsed"
    /\ excepcion = "ninguna"
    /\ Len(restricciones_input) = 2
    /\ ~ValorOk(restricciones_input[1])
    /\ ParamOk(restricciones_input[1]) /\ OpOk(restricciones_input[1])
    /\ Len(restricciones) = 1
    /\ Len(salida) = 1 /\ salida[1].fila = 1

\* C3: a row whose value cannot be coerced (text that is not a number, or
\* None) is skipped and reported, the rest of the batch is processed, and
\* no exception leaves parse_restricciones.
C3_CoercionFailureIsSkipped ==
    pc = "parsed" =>
        /\ excepcion = "ninguna"
        /\ \A k \in DOMAIN restricciones_input :
              LET r == restricciones_input[k] IN
              (ParamOk(r) /\ OpOk(r) /\ ~ValorOk(r)) =>
                  \E j \in DOMAIN salida :
                      salida[j].fila = k /\ salida[j].causa = "valor no numerico"

\* C4: in every class the operator mapping is a bijection from the six
\* symbols onto the six canonical tags, so that going to the tag and back
\* gives the symbol again; a symbol outside the six is reported as an
\* operator error and never mapped.
C4_OperatorBijection ==
    /\ \A c \in Clases :
          LET m == operadores_validos(c) IN
          /\ DOMAIN m = Simbolos
          /\ { m[s] : s \in Simbolos } = Etiquetas
          /\ \A s1, s2 \in Simbolos : m[s1] = m[s2] => s1 = s2
          /\ \A s \in Simbolos : (CHOOSE u \in Simbolos : m[u] = m[s]) = s
    /\ pc = "parsed" =>
          /\ \A k \in Recorridas :
                LET r == restricciones_input[k] IN
                (ParamOk(r) /\ ~OpOk(r)) =>
                    \E j \in DOMAIN salida :
                        salida[j].fila = k /\ salida[j].causa = "operador no valido"
          /\ \A j \in DOMAIN restricciones : restricciones[j].operador \in Etiquetas
          /\ Len(restricciones) <=
                Cardinality({ k \in DOMAIN restricciones_input :
                                OpOk(restricciones_input[k]) })

(* A parse that rejected a seventh symbol and canonicalised "=". *)
C4_Witness ==
    /\ pc = "parsed"
    /\ Len(restricciones_input) = 2
    /\ restricciones_input[1].operador = "<="
    /\ ParamOk(restricciones_input[1])
    /\ Len(salida) = 1 /\ salida[1].causa = "operador no valido"
    /\ Len(restricciones) = 1 /\ restricciones[1].operador = "=="

----------------------------------------------------------------------------
(* eval() on its own: an expression and the declared names are drawn from   *)
(* bounded sets and the expression is evaluated against the names.          *)

VariablesDeclarables == {"x", "y"}
ListasDeVariables ==
    {<< >>, << "x" >>, << "y" >>, << "x", "y" >>, << "x", "x" >>}

Hojas == {Num(0), Num(2), Name("x"), Name("y"), Name("w"), Name("abs")}

ExpresionesEval ==
    Hojas \cup {Vacio}
    \cup { Neg(a) : a \in Hojas }
    \cup { Bin(op, a, b) : op \in OperadoresBinarios, a \in Hojas, b \in Hojas }
    \cup { Call("abs", << a >>) : a \in Hojas }
    \cup { Call("float", << a >>) : a \in Hojas }
    \cup { Call("pow", << a, b >>) : a \in Hojas, b \in Hojas }
    \cup { Call("len", << a >>) : a \in Hojas }
    \cup { Bin("*", Num(2), Call("abs", << a >>)) : a \in Hojas }

InitEval ==
    /\ orden_parametros = << >>
    /\ tipo_objetivo = "None"
    /\ texto = << >>
    /\ clase \in ClasesExpresion
    /\ pc = "expr"
    /\ variables_continuas \in ListasDeVariables
    /\ funcion_objetivo \in ExpresionesEval
    /\ elementos = << >>
    /\ parametros = SinParametros
    /\ param_names = << >>
    /\ restricciones_input = << >>
    /\ restricciones = << >>
    /\ variables_enteras = << >>
    /\ param_objetivo = ""
    /\ salida = << >>
    /\ llamadas = << >>
    /\ modelo = ModeloVacio
    /\ resultado = SinResultado
    /\ evaluado = SinEvaluar
    /\ excepcion = "ninguna"

(* eval(self.funcion_objetivo, {}, {v: handle of v for v in variables}) *)
evaluar ==
    /\ UNCHANGED orden_parametros
    /\ UNCHANGED tipo_objetivo
    /\ UNCHANGED texto
    /\ pc = "expr"
    /\ Seguida(funcion_objetivo, Rango(variables_continuas))
    /\ evaluado' = eval(funcion_objetivo, Rango(variables_continuas))
    /\ pc' = "evaluated"
    /\ UNCHANGED << clase, elementos, parametros, param_names,
                    restricciones_input, restricciones, variables_enteras,
                    variables_continuas, funcion_objetivo, param_objetivo,
                    salida, llamadas, modelo, resultado, excepcion >>

NextEval == evaluar

SpecEval == InitEval /\ [][NextEval]_vars

\* C6: every name of an evaluated expression resolves through the mapping
\* of declared variables only; an expression that uses any other name,
\* builtins included, fails and never evaluates to a term.
C6_NamesResolveOnlyInMapping ==
    (pc = "evaluated"
        /\ ~(NombresDe(funcion_objetivo) \subseteq Rango(variables_continuas)))
    => evaluado.t # "expr"

\* C7: only literals, declared names, + - * / **, unary minus and
\* parentheses are accepted; an expression with a function call is
\* rejected with an error instead of being evaluated.
C7_FunctionCallsRejected ==
    (pc = "evaluated" /\ TieneLlamada(funcion_objetivo))
    => evaluado.t \notin {"expr", "num"}

----------------------------------------------------------------------------
(* validar_parametros (LP, IP): the first declared name whose table does    *)
(* not have exactly the declared elements as keys is reported and ends the  *)
(* check.  self.parametros.get(name, {}) gives the empty table for a name   *)
(* without one.                                                             *)

ClavesDe(nombre) ==
    IF nombre \in DOMAIN parametros THEN DOMAIN parametros[nombre] ELSE {}

MsgCobertura(nombre) ==
    [nivel |-> "error", fila |-> 0, causa |-> "parametro sin valores para todos",
     dato |-> VStr(<< nombre >>)]

RECURSIVE validar_bucle_solo_faltantes(_, _)
validar_bucle_solo_faltantes(nombres, k) ==
    (* a slip: only missing elements are noticed, extra keys pass *)
    IF k > Len(nombres) THEN [ok |-> TRUE, st |-> << >>]
    ELSE IF ~(Rango(elementos) \subseteq ClavesDe(nombres[k]))
         THEN [ok |-> FALSE, st |-> << MsgCobertura(nombres[k]) >>]
         ELSE validar_bucle_solo_faltantes(nombres, k + 1)

RECURSIVE validar_bucle(_, _)
validar_bucle(nombres, k) ==
    IF k > Len(nombres) THEN [ok |-> TRUE, st |-> << >>]
    ELSE IF ClavesDe(nombres[k]) # Rango(elementos)
         THEN [ok |-> FALSE, st |-> << MsgCobertura(nombres[k]) >>]
         ELSE validar_bucle(nombres, k + 1)

validar_parametros(nombres) == validar_bucle(nombres, 1)

----------------------------------------------------------------------------
(* construir_modelo, up to the call of the solver. *)

solver_de_todo_glpk(c) == "glpk"

(* SolverFactory(name) of each class *)
solver_de(c) ==
    CASE c = "LP" -> "glpk"
      [] c = "IP" -> "glpk"
      [] c = "NLP" -> "ipopt"
      [] c = "MILP" -> "glpk"
      [] c = "MINLP" -> "ipopt"

(* ConstraintList.add(lado op valor) with lado a Pyomo expression: the      *)
(* three non-strict relations are accepted; a strict inequality is refused  *)
(* by Pyomo, and != falls back to "not ==", which asks a relational         *)
(* expression for its truth value.                                          *)
agregar_expr(op) ==
    CASE op \in {"<=", ">=", "=="} -> "ninguna"
      [] op \in {"<", ">"} -> "ValueError"
      [] op = "!=" -> "PyomoException"

(* Registration of a component on the model.  model.add_component(name,   *)
(* c) raises RuntimeError when the name is taken; "model.name = c" and      *)
(* setattr(model, name, c) replace the component of that name.              *)
add_component(decl, nombre, tipo) ==
    IF nombre \in DOMAIN decl
    THEN [exc |-> "RuntimeError", decl |-> decl]
    ELSE [exc |-> "ninguna", decl |-> (nombre :> tipo) @@ decl]

setattr(decl, nombre, tipo) == (nombre :> tipo) @@ decl

(* for pname in self.parametros: model.add_component(pname, Param(model.i,  *)
(* initialize=self.parametros[pname])), from key k on.                      *)
RECURSIVE registrar_parametros(_, _, _)
registrar_parametros(claves, k, decl) ==
    IF k > Len(claves) THEN [exc |-> "ninguna", decl |-> decl]
    ELSE LET r == add_component(decl, claves[k], "Param") IN
         IF r.exc # "ninguna" THEN r
         ELSE IF ~(DOMAIN parametros[claves[k]] \subseteq Rango(elementos))
         THEN \* Param(model.i, initialize=...) with a key outside model.i:
              \* the block holds the component when its construction raises
              [exc |-> "KeyError", decl |-> r.decl]
         ELSE registrar_parametros(claves, k + 1, r.decl)

(* getattr(model, nombre)[i] * model.x[i] for the elements i: the kind of   *)
(* component the name denotes and the exception the term raises.            *)
buscar(decl, nombre) ==
    IF nombre \notin DOMAIN decl
    THEN [tipo |-> "ninguno", exc |-> "AttributeError"]
    ELSE [tipo |-> decl[nombre],
          exc |-> CASE decl[nombre] = "Param" ->
                         IF Rango(elementos) \subseteq DOMAIN parametros[nombre]
                         THEN "ninguna" ELSE "ValueError"
                    [] decl[nombre] = "Var" -> "ninguna"
                    [] decl[nombre] = "Set" -> "IndexError"
                    [] decl[nombre] \in {"Objective", "ConstraintList"} -> "KeyError"]

(* The elements i whose variable model.x[i] stays in the sum of              *)
(* getattr(model, nombre)[i] * model.x[i]: a Param is not mutable, its      *)
(* index gives the plain number, and the product of the number 0 and a      *)
(* variable is the number 0; a name that denotes model.x itself gives       *)
(* x[i] * x[i].                                                             *)
elementos_del_termino(decl, nombre) ==
    IF decl[nombre] = "Var" THEN Rango(elementos)
    ELSE { i \in Rango(elementos) : parametros[nombre][i].n # 0 }

(* LP / IP: the loop over self.restricciones, from row k with n rows added, *)
(* the lookups b made and the elements u used so far.                       *)
RECURSIVE restricciones_lineales(_, _, _, _, _)
restricciones_lineales(decl, k, n, b, u) ==
    IF k > Len(restricciones) THEN [exc |-> "ninguna", n |-> n, b |-> b, u |-> u]
    ELSE LET restr == restricciones[k] IN
         IF elementos = << >>
         THEN \* the sum over no elements is the int 0, the comparison a bool
              [exc |-> "ValueError", n |-> n, b |-> b, u |-> u]
         ELSE LET l == buscar(decl, restr.parametro) IN
         IF l.exc # "ninguna"
         THEN [exc |-> l.exc, n |-> n,
               b |-> IF l.tipo = "ninguno" THEN b ELSE Append(b, l.tipo),
               u |-> u]
         ELSE IF elementos_del_termino(decl, restr.parametro) = {}
         THEN \* every product is the number 0: the comparison is a bool
              [exc |-> "ValueError", n |-> n, b |-> Append(b, l.tipo), u |-> u]
         ELSE IF agregar_expr(restr.operador) # "ninguna"
         THEN [exc |-> agregar_expr(restr.operador), n |-> n,
               b |-> Append(b, l.tipo), u |-> u]
         ELSE restricciones_lineales(decl, k + 1, n + 1, Append(b, l.tipo),
                  u \cup elementos_del_termino(decl, restr.parametro))

(* LP.construir_modelo / IP.construir_modelo before the solver is called:   *)
(* the exception that ends it (or "ninguna") and the model built so far.    *)
construir_lineal(c) ==
    LET I == Rango(SinDuplicados(elementos))
        dom == [e \in I |-> IF c = "LP" THEN "NonNegativeReals"
                            ELSE "NonNegativeIntegers"]
        \* model.i = Set(initialize=self.elementos)
        d1 == setattr(SinComponentes, "i", "Set")
        p == registrar_parametros(orden_parametros, 1, d1)
        \* model.x = Var(model.i, within=...)
        d2 == setattr(p.decl, "x", "Var")
        o == IF I = {} THEN [tipo |-> "ninguno", exc |-> "ninguna"]
             ELSE buscar(d2, param_objetivo)
        b1 == IF o.tipo = "ninguno" THEN << >> ELSE << o.tipo >>
        \* model.objetivo = Objective(...); model.restricciones = ConstraintList()
        d3 == setattr(d2, "objetivo", "Objective")
        d4 == setattr(d3, "restricciones", "ConstraintList")
        u1 == IF o.tipo = "ninguno" \/ o.exc # "ninguna" THEN {}
              ELSE elementos_del_termino(d2, param_objetivo)
        r == restricciones_lineales(d4, 1, 0, b1, u1)
    IN  IF p.exc # "ninguna"
        THEN [exc |-> p.exc,
              modelo |-> [ModeloVacio EXCEPT !.componentes = p.decl]]
        ELSE IF o.exc # "ninguna"
        THEN [exc |-> o.exc,
              modelo |-> [dominio |-> dom, objetivo |-> FALSE, nrestr |-> 0,
                          componentes |-> d2, busquedas |-> b1, usadas |-> {}]]
        ELSE [exc |-> r.exc,
              modelo |-> [dominio |-> dom, objetivo |-> TRUE, nrestr |-> r.n,
                          componentes |-> d4, busquedas |-> r.b,
                          usadas |-> r.u]]

(* Variable declarations of the expression classes. *)

RECURSIVE asignar_dominio(_, _, _)
(* for v in nombres: the variable called v gets domain dom *)
asignar_dominio(d, nombres, dom) ==
    IF nombres = << >> THEN d
    ELSE asignar_dominio((Head(nombres) :> dom) @@ d, Tail(nombres), dom)

todas_las_vars(c) ==
    IF c = "NLP" THEN variables_continuas
    ELSE variables_enteras \o variables_continuas

dominios(c) ==
    CASE c = "NLP" -> [v \in Rango(variables_continuas) |-> "Reals"]
      [] c = "MILP" ->
           \* setattr(model, v, Var(...)) replaces a component of that name
           asignar_dominio(
               asignar_dominio([v \in {} |-> "none"], variables_enteras, "Integers"),
               variables_continuas, "Reals")
      [] c = "MINLP" ->
           asignar_dominio(
               [v \in Rango(variables_enteras \o variables_continuas) |-> "Reals"],
               variables_enteras, "Integers")

(* The try block of one constraint row: eval, then the comparison with the  *)
(* right-hand side and ConstraintList.add.  A left side that is a plain     *)
(* number compares to a bool, which add() refuses; a function object does   *)
(* not compare or compares to a bool.                                       *)
fila_falla(restr, locals) ==
    LET lado == eval(restr.expresion, locals)
    IN  CASE lado.t = "exc" -> TRUE
          [] lado.t \in {"num", "func", "none"} -> TRUE
          [] lado.t = "expr" -> agregar_expr(restr.operador) # "ninguna"

MsgErrorObjetivo == Msg("error", "Error en la funcion objetivo")
MsgErrorRestriccion == Msg("error", "Error en restriccion")

RECURSIVE restricciones_expresion_sigue(_, _, _)
restricciones_expresion_sigue(locals, k, n) ==
    (* a slip: "continue" where the code returns *)
    IF k > Len(restricciones) THEN [fallo |-> FALSE, n |-> n]
    ELSE IF fila_falla(restricciones[k], locals)
         THEN restricciones_expresion_sigue(locals, k + 1, n)
         ELSE restricciones_expresion_sigue(locals, k + 1, n + 1)

RECURSIVE restricciones_expresion(_, _, _)
restricciones_expresion(locals, k, n) ==
    IF k > Len(restricciones) THEN [fallo |-> FALSE, n |-> n]
    ELSE IF fila_falla(restricciones[k], locals)
         THEN [fallo |-> TRUE, n |-> n]
         ELSE restricciones_expresion(locals, k + 1, n + 1)

(* NLP / MILP / MINLP construir_modelo before the solver is called: whether *)
(* it returned early, what it reported, and the model built so far.         *)
RECURSIVE registrar_variables(_, _)
(* for v in nombres: setattr(model, v, Var(...)) *)
registrar_variables(decl, nombres) ==
    IF nombres = << >> THEN decl
    ELSE registrar_variables(setattr(decl, Head(nombres), "Var"), Tail(nombres))

(* The components on the model once the variables are declared: in MILP    *)
(* one component per name, in NLP and MINLP the indexed model.vars.         *)
componentes_de_variables(c) ==
    IF c = "MILP"
    THEN registrar_variables(SinComponentes, variables_enteras \o variables_continuas)
    ELSE setattr(SinComponentes, "vars", "Var")

construir_expresion(c) ==
    LET dom == dominios(c)
        locals == DOMAIN dom
        obj == eval(funcion_objetivo, locals)
        r == restricciones_expresion(locals, 1, 0)
        d1 == componentes_de_variables(c)
        d2 == setattr(d1, "objetivo", "Objective")
        d3 == setattr(d2, "restricciones", "ConstraintList")
    IN  CASE obj.t \in {"exc", "func"} ->
               [fallo |-> TRUE, st |-> << MsgErrorObjetivo >>,
                modelo |-> [dominio |-> dom, objetivo |-> FALSE, nrestr |-> 0,
                            componentes |-> d1, busquedas |-> << >>,
                            usadas |-> {}]]
          [] obj.t \in {"num", "none", "expr"} ->
               [fallo |-> r.fallo,
                st |-> IF r.fallo THEN << MsgErrorRestriccion >> ELSE << >>,
                modelo |-> [dominio |-> dom, objetivo |-> TRUE, nrestr |-> r.n,
                            componentes |-> d3, busquedas |-> << >>,
                            usadas |-> VariablesDe(funcion_objetivo, locals) \cup
                                UNION { VariablesDe(restricciones[k].expresion, locals) :
                                            k \in 1..r.n }]]

(* The objective and every row are expressions the model follows: their    *)
(* evaluation is followed, and no variable occurs twice in one of them      *)
(* (whether the solver is handed a variable whose terms cancel is not       *)
(* followed).                                                               *)
ExpresionesSeguidas(c) ==
    LET locals == DOMAIN dominios(c)
    IN  /\ Seguida(funcion_objetivo, locals)
        /\ SinRepetidas(funcion_objetivo, locals)
        /\ \A k \in DOMAIN restricciones :
               /\ Seguida(restricciones[k].expresion, locals)
               /\ SinRepetidas(restricciones[k].expresion, locals)

----------------------------------------------------------------------------
(* The result of solver.solve and its interpretation. *)

Estados == {"ok", "warning", "error", "aborted", "unknown"}
Terminaciones == {"optimal", "infeasible", "unbounded", "maxIterations", "other"}

(* the condition of the if that follows solver.solve *)
exito(c, status, termination) == status = "ok" /\ termination = "optimal"

(* the names whose values are written on success, in order *)
nombres_del_resultado(c) ==
    CASE c \in ClasesLineales -> SinDuplicados(elementos)
      [] c = "NLP" -> variables_continuas
      [] c \in {"MILP", "MINLP"} ->
           SinDuplicados(variables_enteras \o variables_continuas)

MsgValor(nombre) ==
    [nivel |-> "write", fila |-> 0, causa |-> "valor", dato |-> VStr(<< nombre >>)]
MsgDiagnostico(causa, crudo) ==
    [nivel |-> "write", fila |-> 0, causa |-> causa, dato |-> VStr(<< crudo >>)]

(* The variables that hold a number once the solution is loaded.  NLP       *)
(* declares its variables with initialize=1.0; the other classes declare    *)
(* them without a value, and the solver returns one for the variables it    *)
(* was handed: the value of any other variable stays None.                  *)
con_valor(c) ==
    IF c = "NLP" THEN Rango(variables_continuas) ELSE modelo.usadas

(* for v in nombres: st.write(f"{v} = {var():.4f}"), from name k on with    *)
(* the lines st written so far.  Formatting None with a float format        *)
(* raises TypeError, which ends the loop.                                   *)
RECURSIVE escribir_valores(_, _, _, _)
escribir_valores(nombres, k, con, st) ==
    IF k > Len(nombres) THEN [st |-> st, exc |-> "ninguna"]
    ELSE IF nombres[k] \notin con THEN [st |-> st, exc |-> "TypeError"]
    ELSE escribir_valores(nombres, k + 1, con, Append(st, MsgValor(nombres[k])))

(* The branch after solver.solve: what is written and the exception that    *)
(* ends it (or "ninguna").                                                  *)
interpretar(c, status, termination) ==
    IF exito(c, status, termination)
    THEN escribir_valores(nombres_del_resultado(c), 1, con_valor(c),
             << Msg("success", "Optimizacion completada con exito"),
                Msg("markdown", "Valor optimo de la funcion objetivo") >>)
    ELSE [st |-> << Msg("error", "La optimizacion no encontro una solucion optima") >>
                 \o (IF c = "MILP"
                     THEN << MsgDiagnostico("Estado del solver", status),
                             MsgDiagnostico("Condicion de terminacion", termination) >>
                     ELSE << >>),
          exc |-> "ninguna"]

----------------------------------------------------------------------------
(* The application: one request at a time.  The script creates a fresh      *)
(* instance of the selected class, interfaz collects the form and, when     *)
(* "Resolver" was pressed, validates, builds and solves.                    *)

ElementosPosibles == {<< >>, << "Desk" >>, << "Desk", "Table" >>, << "Desk", "Desk" >>}
NombresDeParametros == {<< "L" >>, << "L", "P" >>}
ValoresDeParametro == {Q(0, 1), Q(1, 1)}

FilasDelFormulario(nombres) ==
    [parametro : Rango(nombres), operador : Simbolos, valor : {VInt(48)}]

(* Tables a caller can put into self.parametros directly: any set of keys  *)
(* with the value 1, or both keys with a 0 for "Table" or for both.  The    *)
(* tables with a 0 are tried for the parameter "L".                         *)
TablasPosibles ==
    { t \in UNION { [K -> ValoresDeParametro] : K \in SUBSET {"Desk", "Table"} } :
        \/ \A e \in DOMAIN t : t[e] = Q(1, 1)
        \/ DOMAIN t = {"Desk", "Table"} /\ t["Table"] = Q(0, 1) }
ParametrosPosibles ==
    { p \in UNION { [D -> TablasPosibles] : D \in SUBSET {"L", "P"} } :
        \A n \in DOMAIN p \ {"L"} : \A e \in DOMAIN p[n] : p[n][e] = Q(1, 1) }
FilasDirectas ==
    [parametro : {"L"}, operador : {"u2264", "<"}, valor : {VInt(48)}]

ObjetivosPosibles ==
    {Name("x"), Bin("+", Name("x"), Bin("*", Num(2), Name("y"))),
     Bin("/", Name("x"), Num(0)), Call("abs", << Name("x") >>)}
ExpresionesDeFila == {Name("x"), Bin("+", Name("x"), Name("y"))}
FilasDeExpresion ==
    [expresion : ExpresionesDeFila, operador : Simbolos, valor : {VInt(10)}]

Init ==
    /\ texto = << >>
    /\ clase = "Ninguno"
    /\ pc = "inicio"
    /\ Construido

(* LP.interfaz / IP.interfaz up to the buttons: the lists are read, every   *)
(* declared parameter gets a value for every element, the objective         *)
(* parameter is one of the declared names and the rows are parsed.          *)
interfaz_lineal ==
    /\ tipo_objetivo' = "maximize"   \* the select box left on "Maximizar"
    /\ UNCHANGED texto
    /\ pc = "inicio"
    /\ \E c \in ClasesLineales, els \in ElementosPosibles,
          nombres \in NombresDeParametros :
          \E obj \in Rango(nombres),
             filas \in SeqHasta(FilasDelFormulario(nombres), MaxFilas) :
             LET r == parse_restricciones(c, filas, nombres) IN
             /\ filas # << >>    \* the row counter has min_value=1
             /\ orden_parametros' = SinDuplicados(nombres)
             /\ clase' = c
             /\ elementos' = els
             /\ param_names' = nombres
             /\ parametros' = [p \in Rango(nombres) |->
                                  [e \in Rango(els) |-> Q(1, 1)]]
             /\ param_objetivo' = obj
             /\ restricciones_input' = filas
             /\ restricciones' = r.restricciones
             /\ salida' = r.st
    /\ pc' = "form"
    /\ UNCHANGED << variables_enteras, variables_continuas, funcion_objetivo,
                    llamadas, modelo, resultado, evaluado, excepcion >>

(* The same instance filled in by a caller that assigns the attributes      *)
(* itself: self.parametros need not cover the elements.                     *)
configurar_lineal ==
    /\ tipo_objetivo' = "maximize"   \* the select box left on "Maximizar"
    /\ UNCHANGED texto
    /\ pc = "inicio"
    /\ \E c \in ClasesLineales, els \in ElementosPosibles,
          nombres \in NombresDeParametros, pars \in ParametrosPosibles,
          obj \in {"L", "P"}, filas \in SeqHasta(FilasDirectas, MaxFilas) :
             LET r == parse_restricciones(c, filas, nombres) IN
             /\ orden_parametros' \in
                    { o \in SeqHasta(DOMAIN pars, Cardinality(DOMAIN pars)) :
                          Rango(o) = DOMAIN pars /\ Len(o) = Cardinality(DOMAIN pars) }
             /\ clase' = c
             /\ elementos' = els
             /\ param_names' = nombres
             /\ parametros' = pars
             /\ param_objetivo' = obj
             /\ restricciones_input' = filas
             /\ restricciones' = r.restricciones
             /\ salida' = r.st
    /\ pc' = "directo"   \* no form is drawn
    /\ UNCHANGED << variables_enteras, variables_continuas, funcion_objetivo,
                    llamadas, modelo, resultado, evaluado, excepcion >>

(* NLP.interfaz / MILP.interfaz / MINLP.interfaz up to the buttons: each    *)
(* row's operator is the symbol of the select box, canonicalised.           *)
interfaz_expresion ==
    /\ UNCHANGED orden_parametros
    /\ tipo_objetivo' = "maximize"   \* the select box left on "Maximizar"
    /\ UNCHANGED texto
    /\ pc = "inicio"
    /\ \E c \in ClasesExpresion, ent \in ListasDeVariables,
          cont \in ListasDeVariables, obj \in ObjetivosPosibles,
          filas \in SeqHasta(FilasDeExpresion, MaxFilas) :
             /\ c = "NLP" => ent = << >>
             /\ clase' = c
             /\ variables_enteras' = ent
             /\ variables_continuas' = cont
             /\ funcion_objetivo' = obj
             /\ restricciones_input' = filas
             /\ restricciones' =
                    [k \in DOMAIN filas |->
                        [expresion |-> filas[k].expresion,
                         operador |-> operadores_validos(c)[filas[k].operador],
                         valor |-> filas[k].valor]]
    /\ pc' = "form"
    /\ UNCHANGED << elementos, parametros, param_names, param_objetivo, salida,
                    llamadas, modelo, resultado, evaluado, excepcion >>

(* "Resolver" in LP / IP: if self.validar_parametros(param_names):          *)
(* self.construir_modelo(), up to solver.solve (the caller that assigned    *)
(* the attributes makes the same two calls).                                *)
resolver_lineal ==
    /\ UNCHANGED orden_parametros
    /\ UNCHANGED tipo_objetivo
    /\ UNCHANGED texto
    /\ pc \in {"form", "directo"}
    /\ clase \in ClasesLineales
    /\ LET v == validar_parametros(param_names) IN
       IF ~v.ok
       THEN /\ salida' = salida \o v.st
            /\ pc' = "done"
            /\ UNCHANGED << modelo, llamadas, excepcion >>
       ELSE \E m \in {construir_lineal(clase)} :
            /\ modelo' = m.modelo
            /\ excepcion' = m.exc
            /\ salida' = salida
            /\ IF m.exc = "ninguna"
               THEN pc' = "solving" /\ llamadas' = Append(llamadas, solver_de(clase))
               ELSE pc' = "crash" /\ llamadas' = llamadas
    /\ UNCHANGED << clase, elementos, parametros, param_names,
                    restricciones_input, restricciones, variables_enteras,
                    variables_continuas, funcion_objetivo, param_objetivo,
                    resultado, evaluado >>

(* "Resolver" in NLP / MILP / MINLP: self.construir_modelo(), up to         *)
(* solver.solve.                                                            *)
resolver_expresion ==
    /\ UNCHANGED orden_parametros
    /\ UNCHANGED tipo_objetivo
    /\ UNCHANGED texto
    /\ pc = "form"
    /\ clase \in ClasesExpresion
    /\ ExpresionesSeguidas(clase)
    /\ \E m \in {construir_expresion(clase)} :
       /\ modelo' = m.modelo
       /\ salida' = salida \o m.st
       /\ IF m.fallo
          THEN pc' = "done" /\ llamadas' = llamadas
          ELSE pc' = "solving" /\ llamadas' = Append(llamadas, solver_de(clase))
    /\ UNCHANGED << clase, elementos, parametros, param_names,
                    restricciones_input, restricciones, variables_enteras,
                    variables_continuas, funcion_objetivo, param_objetivo,
                    resultado, evaluado, excepcion >>

(* solver.solve(model) returns and the result is interpreted.  An          *)
(* exception of the success branch is caught by nothing: the lines written  *)
(* before it stay on the page.                                              *)
solve_retorna ==
    /\ UNCHANGED orden_parametros
    /\ UNCHANGED tipo_objetivo
    /\ UNCHANGED texto
    /\ pc = "solving"
    /\ \E status \in Estados, termination \in Terminaciones :
          \E r \in {interpretar(clase, status, termination)} :
             /\ resultado' = [status |-> status, termination |-> termination]
             /\ salida' = salida \o r.st
             /\ excepcion' = r.exc
             /\ pc' = IF r.exc = "ninguna" THEN "done" ELSE "crash"
    /\ UNCHANGED << clase, elementos, parametros, param_names,
                    restricciones_input, restricciones, variables_enteras,
                    variables_continuas, funcion_objetivo, param_objetivo,
                    llamadas, modelo, evaluado >>

(* solver.solve(model) raises (the executable cannot be run): nothing in    *)
(* construir_modelo catches it.                                             *)
solve_lanza ==
    /\ UNCHANGED orden_parametros
    /\ UNCHANGED tipo_objetivo
    /\ UNCHANGED texto
    /\ pc = "solving"
    /\ excepcion' = "ApplicationError"
    /\ pc' = "crash"
    /\ UNCHANGED << clase, elementos, parametros, param_names,
                    restricciones_input, restricciones, variables_enteras,
                    variables_continuas, funcion_objetivo, param_objetivo,
                    salida, llamadas, modelo, resultado, evaluado >>

(* "Salir": st.write of the farewell line of the class, then st.stop(). *)
MsgSalir(c) ==
    Msg("write", CASE c = "LP"    -> "Has salido de la aplicacion."
                   [] c = "IP"    -> "Has salido de la seccion IP."
                   [] c = "NLP"   -> "Has salido de la seccion NLP."
                   [] c = "MILP"  -> "Has salido de la seccion MILP."
                   [] c = "MINLP" -> "Has salido de la seccion MINLP.")

salir ==
    /\ pc = "form"
    /\ salida' = Append(salida, MsgSalir(clase))
    /\ pc' = "stop"
    /\ UNCHANGED << clase, elementos, parametros, param_names,
                    restricciones_input, restricciones, variables_enteras,
                    variables_continuas, funcion_objetivo, param_objetivo,
                    llamadas, modelo, resultado, evaluado, excepcion, texto,
                    tipo_objetivo, orden_parametros >>

(* The script runs again for the next interaction (a widget of the form    *)
(* included), on a new instance.                                            *)
nueva_solicitud ==
    /\ orden_parametros' = << >>
    /\ tipo_objetivo' = "None"
    /\ texto' = << >>
    /\ pc \in {"form", "directo", "done", "crash", "stop"}
    /\ clase' = "Ninguno"
    /\ pc' = "inicio"
    /\ elementos' = << >>
    /\ parametros' = SinParametros
    /\ param_names' = << >>
    /\ restricciones_input' = << >>
    /\ restricciones' = << >>
    /\ variables_enteras' = << >>
    /\ variables_continuas' = << >>
    /\ funcion_objetivo' = Vacio
    /\ param_objetivo' = ""
    /\ salida' = << >>
    /\ llamadas' = << >>
    /\ modelo' = ModeloVacio
    /\ resultado' = SinResultado
    /\ evaluado' = SinEvaluar
    /\ excepcion' = "ninguna"

Next ==
    \/ interfaz_lineal
    \/ configurar_lineal
    \/ interfaz_expresion
    \/ resolver_lineal
    \/ resolver_expresion
    \/ solve_retorna
    \/ solve_lanza
    \/ salir
    \/ nueva_solicitud

Spec == Init /\ [][Next]_vars

----------------------------------------------------------------------------
(* The claims about a request. *)

EnCurso == pc \in {"solving", "done", "crash"}

NoCubierto ==
    \E k \in DOMAIN param_names :
        (IF param_names[k] \in DOMAIN parametros
         THEN DOMAIN parametros[param_names[k]] ELSE {}) # Rango(elementos)

\* C1: in LP and IP, when some declared parameter has values over a key set
\* other than the declared elements, validar_parametros returns False, a
\* coverage error is reported and construir_modelo (so also the backend)
\* is never run for that request.
C1_CoverageBlocksBuild ==
    (clase \in ClasesLineales /\ EnCurso /\ NoCubierto) =>
        /\ pc = "done"
        /\ excepcion = "ninguna"
        /\ llamadas = << >>
        /\ modelo = ModeloVacio
        /\ resultado = SinResultado
        /\ salida # << >>
        /\ salida[Len(salida)].nivel = "error"
        /\ salida[Len(salida)].causa = "parametro sin valores para todos"

(* A request refused because a declared parameter covers a strict subset   *)
(* of the elements.                                                         *)
C1_Witness ==
    /\ clase \in ClasesLineales
    /\ pc = "done"
    /\ \E k \in DOMAIN param_names :
          /\ param_names[k] \in DOMAIN parametros
          /\ DOMAIN parametros[param_names[k]] \subseteq Rango(elementos)
          /\ DOMAIN parametros[param_names[k]] # Rango(elementos)
    /\ llamadas = << >>
    /\ salida # << >>
    /\ salida[Len(salida)].causa = "parametro sin valores para todos"

DeclaradasEnFormulario ==
    IF clase = "NLP" THEN Rango(variables_continuas)
    ELSE Rango(variables_enteras) \cup Rango(variables_continuas)

EvalFalla(e) == eval(e, DeclaradasEnFormulario).t = "exc"

PrimeraFilaQueFalla ==
    LET F == { k \in DOMAIN restricciones : EvalFalla(restricciones[k].expresion) }
    IN  IF F = {} THEN 0 ELSE CHOOSE k \in F : \A j \in F : k <= j

\* C5: in NLP, MILP and MINLP, if the evaluation of the objective or of some
\* constraint row fails, construir_modelo reports the error and returns:
\* the backend is never called, the rows after the failing one are not
\* processed and no result is produced.
C5_EvalFailureStopsBeforeSolve ==
    (clase \in ClasesExpresion /\ EnCurso
        /\ (EvalFalla(funcion_objetivo) \/ PrimeraFilaQueFalla # 0)) =>
        /\ pc = "done"
        /\ llamadas = << >>
        /\ resultado = SinResultado
        /\ Len(salida) = 1
        /\ salida[1].nivel = "error"
        /\ IF EvalFalla(funcion_objetivo)
           THEN /\ salida[1].causa = "Error en la funcion objetivo"
                /\ ~modelo.objetivo
                /\ modelo.nrestr = 0
           ELSE /\ salida[1].causa \in {"Error en la funcion objetivo",
                                        "Error en restriccion"}
                /\ modelo.nrestr < PrimeraFilaQueFalla

(* A request whose first row fails to evaluate while its objective and its  *)
(* second row are fine: the second row was not added.                       *)
C5_Witness ==
    /\ clase \in ClasesExpresion
    /\ pc = "done"
    /\ ~EvalFalla(funcion_objetivo)
    /\ PrimeraFilaQueFalla = 1
    /\ Len(restricciones) = 2
    /\ ~fila_falla(restricciones[2], DeclaradasEnFormulario)
    /\ modelo.nrestr = 0
    /\ modelo.objetivo
    /\ llamadas = << >>
    /\ salida = << MsgErrorRestriccion >>

NombresDeclarados ==
    IF clase \in ClasesLineales THEN Rango(elementos) ELSE DeclaradasEnFormulario

HayMensaje(nivel, causa) ==
    \E j \in DOMAIN salida : salida[j].nivel = nivel /\ salida[j].causa = causa

\* C8: for every class and every status/termination pair the solver hands
\* back, success (the objective value and a value for every declared
\* variable or element) is reported exactly when the status is ok and the
\* termination optimal; every other pair gives the one failure outcome,
\* with no objective value and no variable value.  There is no third
\* outcome: once the solver has returned, the interpretation has ended
\* without an exception in one of the two.
C8_BinaryOutcome ==
    resultado # SinResultado =>
        LET fallo == "La optimizacion no encontro una solucion optima"
        IN  /\ pc = "done"
            /\ excepcion = "ninguna"
            /\ IF resultado.status = "ok" /\ resultado.termination = "optimal"
               THEN /\ HayMensaje("success", "Optimizacion completada con exito")
                    /\ HayMensaje("markdown", "Valor optimo de la funcion objetivo")
                    /\ \A v \in NombresDeclarados :
                          \E j \in DOMAIN salida :
                              /\ salida[j].causa = "valor"
                              /\ salida[j].dato = VStr(<< v >>)
                    /\ ~HayMensaje("error", fallo)
               ELSE /\ Cardinality({ j \in DOMAIN salida :
                                       salida[j].nivel = "error"
                                       /\ salida[j].causa = fallo }) = 1
                    /\ \A j \in DOMAIN salida :
                          /\ salida[j].nivel \notin {"success", "markdown"}
                          /\ salida[j].causa # "valor"

BackendEsperado(c) == IF c \in {"LP", "IP", "MILP"} THEN "glpk" ELSE "ipopt"

SolverAlcanzado ==
    pc = "solving" \/ resultado # SinResultado \/ excepcion = "ApplicationError"

\* C9: a request that reaches the solver makes exactly one backend call and
\* never a second; the backend depends on the class alone: glpk for LP, IP
\* and MILP, ipopt for NLP and MINLP.
C9_OneBackendCallPerRequest ==
    /\ Len(llamadas) <= 1
    /\ SolverAlcanzado <=> llamadas # << >>
    /\ SolverAlcanzado => llamadas = << BackendEsperado(clase) >>

(* A MINLP request that ended in the failure outcome after its one call. *)
C9_Witness ==
    /\ pc = "done"
    /\ clase = "MINLP"
    /\ resultado = [status |-> "warning", termination |-> "infeasible"]
    /\ llamadas = << "ipopt" >>

\* C10: in every model handed to the backend the domains follow the class:
\* LP one non-negative real per element, IP one non-negative integer per
\* element, NLP reals only, and in MILP and MINLP every name of the integer
\* list is integer and every name of the continuous list is continuous.
C10_DomainsFollowClass ==
    pc = "solving" =>
        CASE clase = "LP" ->
               /\ DOMAIN modelo.dominio = Rango(elementos)
               /\ \A e \in Rango(elementos) : modelo.dominio[e] = "NonNegativeReals"
          [] clase = "IP" ->
               /\ DOMAIN modelo.dominio = Rango(elementos)
               /\ \A e \in Rango(elementos) : modelo.dominio[e] = "NonNegativeIntegers"
          [] clase = "NLP" ->
               /\ DOMAIN modelo.dominio = Rango(variables_continuas)
               /\ \A v \in Rango(variables_continuas) : modelo.dominio[v] = "Reals"
          [] clase \in {"MILP", "MINLP"} ->
               /\ DOMAIN modelo.dominio =
                      Rango(variables_enteras) \cup Rango(variables_continuas)
               /\ \A v \in Rango(variables_enteras) : modelo.dominio[v] = "Integers"
               /\ \A v \in Rango(variables_continuas) : modelo.dominio[v] = "Reals"


----------------------------------------------------------------------------
(* parse_lista: texto.split(","), the segments whose strip() is not empty,  *)
(* each stripped and with every " " replaced by "_".  A text is a tuple of  *)
(* one-character strings.                                                   *)

MaxTexto == 5      \* characters of a list field

CaracteresDeLista == {"a", "b", " ", "TAB", ","}

PrimeraComa(t) ==
    IF \E k \in DOMAIN t : t[k] = ","
    THEN CHOOSE k \in DOMAIN t : t[k] = "," /\ \A j \in 1..(k - 1) : t[j] # ","
    ELSE 0

RECURSIVE split(_)
split(t) ==
    LET k == PrimeraComa(t) IN
    IF k = 0 THEN << t >>
    ELSE << SubSeq(t, 1, k - 1) >> \o split(SubSeq(t, k + 1, Len(t)))

replace(t) == [k \in DOMAIN t |-> IF t[k] = " " THEN "_" ELSE t[k]]

RECURSIVE parse_lista_bucle(_)
parse_lista_bucle(segs) ==
    IF segs = << >> THEN << >>
    ELSE IF strip(Head(segs)) # << >>
         THEN << replace(strip(Head(segs))) >> \o parse_lista_bucle(Tail(segs))
         ELSE parse_lista_bucle(Tail(segs))

parse_lista(t) == parse_lista_bucle(split(t))

InitLista ==
    /\ texto \in SeqHasta(CaracteresDeLista, MaxTexto)
    /\ clase \in Clases
    /\ pc = "texto"
    /\ Construido

(* self.elementos = self.parse_lista(elementos_input) *)
listar ==
    /\ UNCHANGED orden_parametros
    /\ UNCHANGED tipo_objetivo
    /\ pc = "texto"
    /\ elementos' = parse_lista(texto)
    /\ pc' = "listado"
    /\ UNCHANGED << clase, parametros, param_names, restricciones_input,
                    restricciones, variables_enteras, variables_continuas,
                    funcion_objetivo, param_objetivo, salida, llamadas,
                    modelo, resultado, evaluado, excepcion, texto >>

NextLista == listar

SpecLista == InitLista /\ [][NextLista]_vars

\* C11: parse_lista returns at most one identifier per comma-separated
\* segment, and no identifier it returns is empty or contains a whitespace
\* character (space, tab, newline).
C11_IdentifiersHaveNoWhitespace ==
    pc = "listado" =>
        /\ Len(elementos) <= Len(split(texto))
        /\ \A k \in DOMAIN elementos :
              /\ elementos[k] # << >>
              /\ \A j \in DOMAIN elementos[k] : elementos[k][j] \notin Blancos


(* The declared parameters that fail the coverage test of                  *)
(* validar_parametros on the current instance.                              *)
ParametrosNoCubiertos ==
    { param_names[k] : k \in { j \in DOMAIN param_names :
          (IF param_names[j] \in DOMAIN parametros
           THEN DOMAIN parametros[param_names[j]] ELSE {}) # Rango(elementos) } }

\* C12: in LP and IP, once "Resolver" has run validar_parametros, every
\* declared parameter that fails the coverage check has its own coverage
\* diagnostic in the output, not only the first one in declaration order.
C12_EveryFailingParameterReported ==
    (clase \in ClasesLineales /\ EnCurso) =>
        \A n \in ParametrosNoCubiertos :
            \E k \in DOMAIN salida : salida[k] = MsgCobertura(n)


\* C13: in every class, when solver.solve has returned and the outcome is
\* the failure outcome (status not ok or termination not optimal), the
\* output of the request carries the raw status and the raw termination
\* condition of the backend.
C13_FailureKeepsRawStatus ==
    (clase \in Clases /\ pc = "done" /\ resultado # SinResultado
        /\ ~(resultado.status = "ok" /\ resultado.termination = "optimal")) =>
        /\ \E k \in DOMAIN salida :
              salida[k] = MsgDiagnostico("Estado del solver", resultado.status)
        /\ \E k \in DOMAIN salida :
              salida[k] = MsgDiagnostico("Condicion de terminacion",
                                         resultado.termination)


\* C14: when the backend of the selected class cannot be run, the request
\* that reached solver.solve ends handled: no exception leaves
\* construir_modelo, an error is reported in the output and no success
\* result is produced.
C14_SolverUnavailableIsHandled ==
    (llamadas # << >> /\ pc \in {"done", "crash"} /\ resultado = SinResultado) =>
        /\ pc = "done"
        /\ excepcion = "ninguna"
        /\ \E k \in DOMAIN salida : salida[k].nivel = "error"
        /\ \A k \in DOMAIN salida : salida[k].nivel # "success"


----------------------------------------------------------------------------
(* MILP.interfaz with the values its widgets start with: the lists, the     *)
(* objective and the rows of restricciones_default.  A select box shows     *)
(* operadores[index], with index = operadores.index(def_op) if def_op is    *)
(* in operadores, else 0.                                                   *)

MaxValor == 2      \* largest value of a variable in the assignments tried

operadores == << "u2264", "u2265", "=", "<", ">", "u2260" >>

index(lista, v) == CHOOSE k \in DOMAIN lista :
                       lista[k] = v /\ \A j \in 1..(k - 1) : lista[j] # v

selectbox_index(def_op) ==
    IF def_op \in Rango(operadores) THEN index(operadores, def_op) ELSE 1

restricciones_default_MILP ==
    << [expresion |-> Bin("+", Name("x"), Name("y")), operador |-> "<=",
        valor |-> VInt(10)],
       [expresion |-> Bin("+", Name("y"), Name("z")), operador |-> ">=",
        valor |-> VInt(5)],
       [expresion |-> Name("x"), operador |-> ">=", valor |-> VInt(20)],
       [expresion |-> Name("y"), operador |-> ">=", valor |-> VInt(11)],
       [expresion |-> Name("z"), operador |-> "<=", valor |-> VInt(100)] >>

funcion_objetivo_default_MILP ==
    Bin("+", Bin("+", Name("x"), Bin("*", Num(2), Name("y"))),
             Bin("*", Num(3), Name("z")))

(* What the widgets of row k hold when the user has not touched them. *)
FilaSinTocar(k) ==
    [expresion |-> restricciones_default_MILP[k].expresion,
     operador |-> operadores[selectbox_index(restricciones_default_MILP[k].operador)],
     valor |-> restricciones_default_MILP[k].valor]

(* The user may lower the number of rows, and in each row leave the         *)
(* operator or pick the second entry of the select box.                     *)
interfaz_MILP ==
    /\ UNCHANGED orden_parametros
    /\ pc = "inicio"
    /\ \E n \in 0..Len(restricciones_default_MILP),
          sentido \in {"maximize", "minimize"} :
          \E ops \in [1..n -> {"sin tocar", "u2265"}] :
             LET filas == [k \in 1..n |->
                    IF ops[k] = "sin tocar" THEN FilaSinTocar(k)
                    ELSE [FilaSinTocar(k) EXCEPT !.operador = ops[k]]]
             IN  /\ restricciones_input' = filas
                 /\ restricciones' =
                        [k \in 1..n |->
                            [expresion |-> filas[k].expresion,
                             operador |-> operadores_validos("MILP")[filas[k].operador],
                             valor |-> filas[k].valor]]
                 /\ tipo_objetivo' = sentido
    /\ clase' = "MILP"
    /\ variables_enteras' = << "x" >>
    /\ variables_continuas' = << "y", "z" >>
    /\ funcion_objetivo' = funcion_objetivo_default_MILP
    /\ pc' = "form"
    /\ UNCHANGED << elementos, parametros, param_names, param_objetivo, salida,
                    llamadas, modelo, resultado, evaluado, excepcion, texto >>

NextMILP ==
    \/ interfaz_MILP
    \/ resolver_expresion
    \/ solve_retorna
    \/ solve_lanza
    \/ salir
    \/ nueva_solicitud

SpecMILP == Init /\ [][NextMILP]_vars

(* The value of an expression of +, * and names at an assignment. *)
RECURSIVE valor_en(_, _)
valor_en(e, a) ==
    IF e[1] = "num" THEN e[2]
    ELSE IF e[1] = "name" THEN a[e[2]]
    ELSE IF e[2] = "+" THEN valor_en(e[3], a) + valor_en(e[4], a)
    ELSE valor_en(e[3], a) * valor_en(e[4], a)

cumple(op, l, v) ==
    CASE op = "<=" -> l <= v
      [] op = ">=" -> l >= v
      [] op = "==" -> l = v
      [] op = "<"  -> l < v
      [] op = ">"  -> l > v
      [] op = "!=" -> l # v

Asignaciones == [{"x", "y", "z"} -> 0..MaxValor]

Satisface(a) ==
    \A k \in DOMAIN restricciones :
        cumple(restricciones[k].operador,
               valor_en(restricciones[k].expresion, a),
               restricciones[k].valor.num)

FormularioSinTocar ==
    restricciones_input = [k \in DOMAIN restricciones_default_MILP |-> FilaSinTocar(k)]

\* C15: the rows MILP.interfaz builds from its default scenario carry the
\* operators <=, >=, >=, >=, <= of the scenario, and no assignment of x, y
\* and z satisfies all of them (so the solve cannot report an optimum).
C15_DefaultScenarioIsInfeasible ==
    (clase = "MILP" /\ pc # "inicio" /\ FormularioSinTocar) =>
        /\ [k \in DOMAIN restricciones |-> restricciones[k].operador]
               = << "<=", ">=", ">=", ">=", "<=" >>
        /\ \A a \in Asignaciones : ~Satisface(a)


----------------------------------------------------------------------------
(* LP.interfaz with the values its widgets start with, and the linear       *)
(* terms LP.construir_modelo assembles from them.  A parameter value is a   *)
(* fraction [n, d] (1.5 is 3/2), which the floats of the scenario are       *)
(* exactly.                                                                 *)

MaxCantidad == 8          \* largest value of x[e] in the assignments tried
MaxMultiplicador == 10    \* largest multiplier of a row in a bound


elementos_default == << "Desk", "Table", "Chairs" >>
parametros_default == << "L", "F", "C", "P" >>

param_values_default ==
    [pname \in {"L", "F", "C", "P"} |->
        CASE pname = "L" ->
               [el \in {"Desk", "Table", "Chairs"} |->
                   CASE el = "Desk" -> Q(8, 1) [] el = "Table" -> Q(6, 1)
                     [] el = "Chairs" -> Q(1, 1)]
          [] pname = "F" ->
               [el \in {"Desk", "Table", "Chairs"} |->
                   CASE el = "Desk" -> Q(4, 1) [] el = "Table" -> Q(2, 1)
                     [] el = "Chairs" -> Q(3, 2)]
          [] pname = "C" ->
               [el \in {"Desk", "Table", "Chairs"} |->
                   CASE el = "Desk" -> Q(2, 1) [] el = "Table" -> Q(3, 2)
                     [] el = "Chairs" -> Q(1, 2)]
          [] pname = "P" ->
               [el \in {"Desk", "Table", "Chairs"} |->
                   CASE el = "Desk" -> Q(60, 1) [] el = "Table" -> Q(30, 1)
                     [] el = "Chairs" -> Q(20, 1)]]

restricciones_default_LP ==
    << [parametro |-> "L", operador |-> "u2264", valor |-> VInt(48)],
       [parametro |-> "F", operador |-> "u2264", valor |-> VInt(20)],
       [parametro |-> "C", operador |-> "u2264", valor |-> VInt(8)] >>

(* The user may pick the objective parameter and the sense, lower the       *)
(* number of rows, and in each row leave the operator or pick the second    *)
(* entry of the select box.                                                 *)
interfaz_LP ==
    /\ pc = "inicio"
    /\ \E n \in 1..Len(restricciones_default_LP),
          sentido \in {"maximize", "minimize"},
          obj \in Rango(parametros_default) :
          \E ops \in [1..n -> {"sin tocar", "u2265"}] :
             LET filas == [k \in 1..n |->
                    IF ops[k] = "sin tocar" THEN restricciones_default_LP[k]
                    ELSE [restricciones_default_LP[k] EXCEPT !.operador = ops[k]]]
                 r == parse_restricciones("LP", filas, parametros_default)
             IN  /\ restricciones_input' = filas
                 /\ restricciones' = r.restricciones
                 /\ salida' = r.st
                 /\ tipo_objetivo' = sentido
                 /\ param_objetivo' = obj
    /\ clase' = "LP"
    /\ elementos' = elementos_default
    /\ param_names' = parametros_default
    /\ orden_parametros' = parametros_default
    /\ parametros' = param_values_default
    /\ pc' = "form"
    /\ UNCHANGED << variables_enteras, variables_continuas, funcion_objetivo,
                    llamadas, modelo, resultado, evaluado, excepcion, texto >>

NextLP ==
    \/ interfaz_LP
    \/ resolver_lineal
    \/ solve_retorna
    \/ solve_lanza
    \/ salir
    \/ nueva_solicitud

SpecLP == Init /\ [][NextLP]_vars

(* sum(getattr(model, pname)[i] * model.x[i] for i in model.i): the         *)
(* coefficient of each x[i].                                                *)
termino_del_primero(pname) ==
    (* a slip: the table of the first declared parameter is always used *)
    [i \in Rango(elementos) |-> parametros[param_names[1]][i]]

termino(pname) == [i \in Rango(elementos) |-> parametros[pname][i]]

Mas(p, q) == Q(p.n * q.d + q.n * p.d, p.d * q.d)
MenorIgual(p, q) == p.n * q.d <= q.n * p.d

(* The value of a linear term at an assignment a of whole numbers. *)
RECURSIVE valor_del_termino(_, _, _)
valor_del_termino(coef, a, els) ==
    IF els = << >> THEN Q(0, 1)
    ELSE Mas(Q(coef[Head(els)].n * a[Head(els)], coef[Head(els)].d),
             valor_del_termino(coef, a, Tail(els)))

ValorEn(pname, a) == valor_del_termino(termino(pname), a, SinDuplicados(elementos))

AsignacionesLP == [Rango(elementos) -> 0..MaxCantidad]

FactibleLP(a) ==
    \A k \in DOMAIN restricciones :
        /\ restricciones[k].operador = "<="
        /\ MenorIgual(ValorEn(restricciones[k].parametro, a),
                      Q(restricciones[k].valor.num, 1))

(* Multipliers y >= 0 of the rows with sum_k y[k] * row_k >= objective,     *)
(* coefficient by coefficient: then every x >= 0 that satisfies the rows    *)
(* has objective <= sum_k y[k] * valor_k.                                   *)
Multiplicadores == [DOMAIN restricciones -> 0..MaxMultiplicador]

RECURSIVE combinacion(_, _, _)
combinacion(y, i, k) ==
    IF k > Len(restricciones) THEN Q(0, 1)
    ELSE Mas(Q(termino(restricciones[k].parametro)[i].n * y[k],
               termino(restricciones[k].parametro)[i].d),
             combinacion(y, i, k + 1))

RECURSIVE cota(_, _)
cota(y, k) ==
    IF k > Len(restricciones) THEN 0
    ELSE y[k] * restricciones[k].valor.num + cota(y, k + 1)

Domina(y) ==
    \A i \in Rango(elementos) :
        MenorIgual(termino(param_objetivo)[i], combinacion(y, i, 1))

EscenarioLP ==
    /\ clase = "LP"
    /\ pc \in {"solving", "done", "crash"}
    /\ elementos = elementos_default
    /\ parametros = param_values_default
    /\ param_objetivo = "P"
    /\ tipo_objetivo = "maximize"
    /\ restricciones_input = restricciones_default_LP

\* C16: for the LP scenario the builder assembles a model over
\* non-negative reals that maximises sum P[e]*x[e] under the three <= rows
\* of L, F and C; some assignment satisfying the rows attains 280, none of
\* the assignments tried exceeds 280, and multipliers of the rows bound the
\* objective of every feasible assignment by 280.
C16_LPScenarioOptimumIs280 ==
    EscenarioLP =>
        /\ llamadas = << "glpk" >>
        /\ modelo.objetivo
        /\ modelo.nrestr = 3
        /\ \A e \in Rango(elementos) : modelo.dominio[e] = "NonNegativeReals"
        /\ \E a \in AsignacionesLP :
              FactibleLP(a) /\ ValorEn(param_objetivo, a) = Q(280, 1)
        /\ \A a \in AsignacionesLP :
              FactibleLP(a) => MenorIgual(ValorEn(param_objetivo, a), Q(280, 1))
        /\ \E y \in Multiplicadores : Domina(y) /\ cota(y, 1) = 280

(* The scenario was built and handed to glpk, and Desk = 2, Table = 0,      *)
(* Chairs = 8 satisfies its rows with objective 280.                        *)
C16_Witness ==
    /\ EscenarioLP
    /\ pc = "solving"
    /\ LET a == [e \in Rango(elementos) |->
                    CASE e = "Desk" -> 2 [] e = "Table" -> 0 [] e = "Chairs" -> 8]
       IN  FactibleLP(a) /\ MenorIgual(Q(280, 1), ValorEn("P", a))


----------------------------------------------------------------------------
(* Requests whose names are typed by the user, the builder's own component  *)
(* names among them.                                                        *)

NombresElegibles == {"L", "i", "x", "objetivo", "restricciones"}

ListasDeNombres ==
    { n \in SeqHasta(NombresElegibles, 2) : n # << >> /\ SinDuplicados(n) = n }

(* LP.interfaz / IP.interfaz with one element, the typed parameter names,   *)
(* a value for every parameter and element, and one row.                    *)
interfaz_nombres_lineal ==
    /\ pc = "inicio"
    /\ \E c \in ClasesLineales, nombres \in ListasDeNombres :
          \E obj \in Rango(nombres),
             filas \in SeqHasta([parametro : Rango(nombres),
                                 operador : {"u2264"}, valor : {VInt(48)}], 1) :
             LET r == parse_restricciones(c, filas, nombres) IN
             /\ filas # << >>    \* the row counter has min_value=1
             /\ orden_parametros' = nombres
             /\ clase' = c
             /\ param_names' = nombres
             /\ parametros' = [n \in Rango(nombres) |-> [e \in {"Desk"} |-> Q(1, 1)]]
             /\ param_objetivo' = obj
             /\ restricciones_input' = filas
             /\ restricciones' = r.restricciones
             /\ salida' = r.st
    /\ elementos' = << "Desk" >>
    /\ tipo_objetivo' = "maximize"
    /\ pc' = "form"
    /\ UNCHANGED << variables_enteras, variables_continuas, funcion_objetivo,
                    llamadas, modelo, resultado, evaluado, excepcion, texto >>

(* MILP.interfaz with one typed integer variable, at most one continuous    *)
(* variable, the integer variable as objective and at most one row.         *)
interfaz_nombres_MILP ==
    /\ UNCHANGED orden_parametros
    /\ pc = "inicio"
    /\ \E v \in NombresElegibles, cont \in SeqHasta(NombresElegibles, 1) :
          \E filas \in SeqHasta([expresion : { Name(u) : u \in {v} \cup Rango(cont) },
                                 operador : {"u2264"}, valor : {VInt(10)}], 1) :
             /\ variables_enteras' = << v >>
             /\ variables_continuas' = cont
             /\ funcion_objetivo' = Name(v)
             /\ restricciones_input' = filas
             /\ restricciones' =
                    [k \in DOMAIN filas |->
                        [expresion |-> filas[k].expresion,
                         operador |-> operadores_validos("MILP")[filas[k].operador],
                         valor |-> filas[k].valor]]
    /\ clase' = "MILP"
    /\ tipo_objetivo' = "maximize"
    /\ pc' = "form"
    /\ UNCHANGED << elementos, parametros, param_names, param_objetivo, salida,
                    llamadas, modelo, resultado, evaluado, excepcion, texto >>

NextNombres ==
    \/ interfaz_nombres_lineal
    \/ interfaz_nombres_MILP
    \/ resolver_lineal
    \/ resolver_expresion
    \/ solve_retorna
    \/ solve_lanza
    \/ salir
    \/ nueva_solicitud

SpecNombres == Init /\ [][NextNombres]_vars

\* C17: once construir_modelo has run, no registration of a component has
\* failed, every lookup of a parameter in the objective or a constraint of
\* LP / IP returned that parameter's table, and every declared parameter
\* (LP, IP) or variable (MILP) registered on the model is still the
\* component of its name.
C17_NamesDenoteTheirComponents ==
    pc \in {"solving", "done", "crash"} =>
        /\ excepcion # "RuntimeError"
        /\ clase \in ClasesLineales =>
              /\ \A k \in DOMAIN modelo.busquedas : modelo.busquedas[k] = "Param"
              /\ \A n \in Rango(param_names) \cap DOMAIN modelo.componentes :
                    modelo.componentes[n] = "Param"
        /\ clase = "MILP" =>
              \A v \in Rango(variables_enteras \o variables_continuas)
                         \cap DOMAIN modelo.componentes :
                    modelo.componentes[v] = "Var"

====
